---------------------------- MODULE Spec2Model ----------------------------
(***************************************************************************)
(* FelixActivityBot: the activity-tracking and access-control data layer   *)
(* (class ActivityTracker) and the handlers that drive it.                 *)
(*                                                                         *)
(* Time is counted in whole hours since process start: datetime.now() is   *)
(* the variable now, timedelta(hours=h) is h and timedelta(days=d) is      *)
(* HoursPerDay * d.  A DATETIME column holds NULL, the empty text (what a  *)
(* blank spreadsheet cell restores to) or the ISO text of an instant.      *)
(* Storage, the chat platform and the spreadsheet are taken to answer      *)
(* without fault in the specification Spec; SpecStorage lets the database  *)
(* calls raise.  The application is built with the default, sequential,    *)
(* update processing: an update is handed to its handler when the handler  *)
(* of the update before has returned.  track_message does its work on both *)
(* sides of one await, the new-group notification; while it waits there    *)
(* the clock, the garbage collector and the daily backup of the job queue  *)
(* go on, and no other handler runs.                                       *)
(* A database call that raises returns from its except branch without      *)
(* closing its connection: db_lock is the lock that connection keeps, and  *)
(* Collect is the garbage collector closing it.                            *)
(***************************************************************************)
EXTENDS Integers, Sequences, FiniteSets, TLC

VARIABLES
    now,            \* datetime.now(), in hours
    groups,         \* table groups: a set of rows
    activity,       \* table activity: rows in insertion (id) order
    group_admins,   \* table group_admins: rows in insertion (id) order
    backup_sheet,   \* the 'Backup' worksheet, when one is configured
    notifications,  \* new-group messages sent to the super admin, per chat
    last,           \* the handler that ran last, with what it returned
    suspended,      \* track_message handlers waiting at their await, with their locals
    db_lock         \* the lock a connection that was never closed holds on the database

vars == <<now, groups, activity, group_admins, backup_sheet, notifications, last,
          suspended, db_lock>>

----------------------------------------------------------------------------
(* Bounds of the exploration *)

MaxTime == 1
MaxEvents == 1
MaxRows == 4

(* Program constants *)

SUPER_ADMIN_ID == 1
HoursPerDay == 24
DefaultTrialHours == 48
DefaultSubscriptionDays == 30
LeaderboardDefaultDays == 7
LeaderboardMaxDays == 30
PeakDays == 7
ExportDefaultDays == 30
ExportMaxDays == 90

(* Locks and faults *)

\* A call that raises between sqlite3.connect and conn.close() returns from
\* its except branch with the connection open.  The connection keeps the lock
\* it had on the database file until the garbage collector closes it: none
\* after a statement that only read or never ran, RESERVED after a write
\* that was not committed, PENDING after a commit that could not finish.
NoLock == "none"
\* a SELECT of another connection waits for the timeout of connect and raises
\* 'database is locked' under PENDING; a write does under RESERVED as well
ReadLocked(lock) == lock = "pending"
WriteLocked(lock) == lock \in {"reserved", "pending"}

\* a call that raises when made: the call (at), for the INSERT of restore the
\* worksheet row it was made for, and the lock its connection is left with
Fault(at, row) == [at |-> at, row |-> row, holds |-> NoLock]
NoFault == Fault("none", 0)

(* Inputs *)

Chats == {-100}
TwoChats == {-100, -200}
Users == {SUPER_ADMIN_ID, 7}
Members == Users \ {SUPER_ADMIN_ID}
ChatTypes == {"group", "private"}
GroupOnly == {"group"}
TrialHours == {0, 1}
SubscriptionDays == {0, 1}
BridgeTrialHours == {1}
BridgeSubscriptionDays == {0}
DayCounts == {0, 31, 91}
StatUsers == {7, 8}
StatTypes == {"text", "photo"}
StatTimes == {0, 25}
StatNow == 25
LogStarts == {0, 47}
AverageUsers == {7, 8, 9}
BackupFaults == {Fault(at, 0) : at \in {"select", "clear", "insert_row", "append_rows"}}
\* the INSERT of the first row raises before it has run (a missing key, a
\* value sqlite3 cannot bind), with no lock taken, or while it runs (a value
\* the column does not take), with the write transaction open; the INSERT of
\* a later row raises in the transaction the first has opened
RestoreFaults ==
    {Fault("get_all_records", 0)}
        \cup {[Fault("execute", 1) EXCEPT !.holds = lock] : lock \in {NoLock, "reserved"}}
        \cup {[Fault("execute", 2) EXCEPT !.holds = "reserved"]}
\* calls to the database that may raise while a message or a statistics
\* command is handled
ReadFaults == {Fault("get_group_status", 0)}
WriteFaults == {[Fault("log_activity", 0) EXCEPT !.holds = lock] :
                    lock \in {NoLock, "reserved", "pending"}}
StorageFaults == ReadFaults \cup WriteFaults
Messages == {{"text"}, {"photo"}}
Statuses == {"pending", "trial", "active", "expired"}

----------------------------------------------------------------------------
(* Column values *)

NULL == [text |-> "NULL"]
EMPTY == [text |-> ""]
Iso(t) == [text |-> "iso", t |-> t]
fromisoformat(x) == x.t
Truthy(x) == x # NULL /\ x # EMPTY

None == "None"
\* None where a call returns a dict or a text otherwise
Nothing == [none |-> TRUE]
\* self.backup_sheet: None, or the worksheet with its data rows under the header
NoSheet == [configured |-> FALSE, rows |-> <<>>]
Sheet(rows) == [configured |-> TRUE, rows |-> rows]

Row(chat_id, status, trial_end, sub_end) ==
    [chat_id |-> chat_id, status |-> status,
     trial_end_date |-> trial_end, subscription_end_date |-> sub_end]

RowsOf(g, chat_id) == {r \in g : r.chat_id = chat_id}
HasRow(g, chat_id) == RowsOf(g, chat_id) # {}
fetchone(g, chat_id) == CHOOSE r \in g : r.chat_id = chat_id

IsGroupChat(chat_type) == chat_type \in {"group", "supergroup"}

----------------------------------------------------------------------------
(* ActivityTracker: group registry and access evaluator *)

is_super_admin(user_id) == user_id = SUPER_ADMIN_ID

update_group_status(g, lock, chat_id, status) ==
    IF WriteLocked(lock)
    THEN [groups |-> g, ret |-> FALSE]
    ELSE [groups |-> {IF r.chat_id = chat_id THEN [r EXCEPT !.status = status] ELSE r
                      : r \in g},
          ret |-> TRUE]

\* mutation: a deadline counts as passed at the deadline itself (>= for >)
get_group_status_at_deadline(g, lock, chat_id, t, fault) ==
    IF fault.at = "get_group_status" \/ ReadLocked(lock)
    THEN [groups |-> g, ret |-> None]
    ELSE IF ~HasRow(g, chat_id)
    THEN [groups |-> g, ret |-> None]
    ELSE LET r == fetchone(g, chat_id)
         IN IF /\ r.status = "trial"
               /\ Truthy(r.trial_end_date)
               /\ t >= fromisoformat(r.trial_end_date)
            THEN [groups |-> update_group_status(g, lock, chat_id, "expired").groups,
                  ret |-> "expired"]
            ELSE IF /\ r.status = "active"
                    /\ Truthy(r.subscription_end_date)
                    /\ t >= fromisoformat(r.subscription_end_date)
                 THEN [groups |-> update_group_status(g, lock, chat_id, "expired").groups,
                       ret |-> "expired"]
                 ELSE [groups |-> g, ret |-> r.status]

\* mutation: both deadlines are checked whatever the stored status is
get_group_status_any_deadline(g, lock, chat_id, t, fault) ==
    IF fault.at = "get_group_status" \/ ReadLocked(lock)
    THEN [groups |-> g, ret |-> None]
    ELSE IF ~HasRow(g, chat_id)
    THEN [groups |-> g, ret |-> None]
    ELSE LET r == fetchone(g, chat_id)
         IN IF /\ r.status \in {"trial", "active"}
               /\ Truthy(r.trial_end_date)
               /\ t > fromisoformat(r.trial_end_date)
            THEN [groups |-> update_group_status(g, lock, chat_id, "expired").groups,
                  ret |-> "expired"]
            ELSE IF /\ r.status \in {"trial", "active"}
                    /\ Truthy(r.subscription_end_date)
                    /\ t > fromisoformat(r.subscription_end_date)
                 THEN [groups |-> update_group_status(g, lock, chat_id, "expired").groups,
                       ret |-> "expired"]
                 ELSE [groups |-> g, ret |-> r.status]

\* mutation: a read that raises lets the group through
get_group_status_fail_open(g, lock, chat_id, t, fault) ==
    IF fault.at = "get_group_status"
    THEN [groups |-> g, ret |-> "active"]
    ELSE IF ReadLocked(lock)
    THEN [groups |-> g, ret |-> None]
    ELSE IF ~HasRow(g, chat_id)
    THEN [groups |-> g, ret |-> None]
    ELSE LET r == fetchone(g, chat_id)
         IN IF /\ r.status = "trial"
               /\ Truthy(r.trial_end_date)
               /\ t > fromisoformat(r.trial_end_date)
            THEN [groups |-> update_group_status(g, lock, chat_id, "expired").groups,
                  ret |-> "expired"]
            ELSE IF /\ r.status = "active"
                    /\ Truthy(r.subscription_end_date)
                    /\ t > fromisoformat(r.subscription_end_date)
                 THEN [groups |-> update_group_status(g, lock, chat_id, "expired").groups,
                       ret |-> "expired"]
                 ELSE [groups |-> g, ret |-> r.status]

\* an exception of the SELECT is logged and None returned; the value
\* update_group_status returns is not looked at
get_group_status(g, lock, chat_id, t, fault) ==
    IF fault.at = "get_group_status" \/ ReadLocked(lock)
    THEN [groups |-> g, ret |-> None]
    ELSE IF ~HasRow(g, chat_id)
    THEN [groups |-> g, ret |-> None]
    ELSE LET r == fetchone(g, chat_id)
         IN IF /\ r.status = "trial"
               /\ Truthy(r.trial_end_date)
               /\ t > fromisoformat(r.trial_end_date)
            THEN [groups |-> update_group_status(g, lock, chat_id, "expired").groups,
                  ret |-> "expired"]
            ELSE IF /\ r.status = "active"
                    /\ Truthy(r.subscription_end_date)
                    /\ t > fromisoformat(r.subscription_end_date)
                 THEN [groups |-> update_group_status(g, lock, chat_id, "expired").groups,
                       ret |-> "expired"]
                 ELSE [groups |-> g, ret |-> r.status]

\* mutation: the insert is not guarded by the existence check (INSERT OR REPLACE)
register_group_unguarded(g, lock, chat_id) ==
    IF WriteLocked(lock)
    THEN [groups |-> g, ret |-> FALSE]
    ELSE [groups |-> (g \ RowsOf(g, chat_id)) \cup {Row(chat_id, "pending", NULL, NULL)},
          ret |-> TRUE]

\* False for a chat that has its row and for an exception of the SELECT or
\* of the INSERT
register_group(g, lock, chat_id) ==
    IF ReadLocked(lock)
    THEN [groups |-> g, ret |-> FALSE]
    ELSE IF HasRow(g, chat_id)
    THEN [groups |-> g, ret |-> FALSE]
    ELSE IF WriteLocked(lock)
    THEN [groups |-> g, ret |-> FALSE]
    ELSE [groups |-> g \cup {Row(chat_id, "pending", NULL, NULL)}, ret |-> TRUE]

\* mutation: a re-issued trial is added to the deadline already stored
approve_group_trial_adds(g, lock, chat_id, hours, t) ==
    IF WriteLocked(lock)
    THEN [groups |-> g, ret |-> FALSE]
    ELSE [groups |-> {IF r.chat_id = chat_id
                      THEN [r EXCEPT !.status = "trial",
                                     !.trial_end_date =
                                         IF Truthy(r.trial_end_date)
                                         THEN Iso(fromisoformat(r.trial_end_date) + hours)
                                         ELSE Iso(t + hours)]
                      ELSE r : r \in g},
          ret |-> TRUE]

\* mutation: the UPDATE is an upsert, so a chat without a row gets one
approve_group_trial_upsert(g, lock, chat_id, hours, t) ==
    IF WriteLocked(lock)
    THEN [groups |-> g, ret |-> FALSE]
    ELSE [groups |-> IF HasRow(g, chat_id)
                     THEN {IF r.chat_id = chat_id
                           THEN [r EXCEPT !.status = "trial", !.trial_end_date = Iso(t + hours)]
                           ELSE r : r \in g}
                     ELSE g \cup {Row(chat_id, "trial", Iso(t + hours), NULL)},
          ret |-> TRUE]

approve_group_trial(g, lock, chat_id, hours, t) ==
    IF WriteLocked(lock)
    THEN [groups |-> g, ret |-> FALSE]
    ELSE [groups |-> {IF r.chat_id = chat_id
                      THEN [r EXCEPT !.status = "trial", !.trial_end_date = Iso(t + hours)]
                      ELSE r : r \in g},
          ret |-> TRUE]

\* mutation: the status literal of approve_group_trial is left in place
extend_subscription_copy_paste(g, lock, chat_id, days, t) ==
    IF WriteLocked(lock)
    THEN [groups |-> g, ret |-> FALSE]
    ELSE [groups |-> {IF r.chat_id = chat_id
                      THEN [r EXCEPT !.status = "trial",
                                     !.subscription_end_date = Iso(t + HoursPerDay * days)]
                      ELSE r : r \in g},
          ret |-> TRUE]

extend_subscription(g, lock, chat_id, days, t) ==
    IF WriteLocked(lock)
    THEN [groups |-> g, ret |-> FALSE]
    ELSE [groups |-> {IF r.chat_id = chat_id
                      THEN [r EXCEPT !.status = "active",
                                     !.subscription_end_date = Iso(t + HoursPerDay * days)]
                      ELSE r : r \in g},
          ret |-> TRUE]

----------------------------------------------------------------------------
(* ActivityTracker: group admins *)

\* the ids of the rows WHERE chat_id = ? AND user_id = ?
AdminRows(ga, chat_id, user_id) ==
    {i \in 1..Len(ga) : ga[i].chat_id = chat_id /\ ga[i].user_id = user_id}

\* mutation: the SELECT leaves out chat_id = ?
is_group_admin_any_chat(ga, lock, chat_id, user_id) ==
    IF is_super_admin(user_id) THEN TRUE
    ELSE IF ReadLocked(lock) THEN FALSE
    ELSE Cardinality({i \in 1..Len(ga) : ga[i].user_id = user_id}) > 0

\* True for the super admin without a look at the table; an exception of the
\* SELECT gives False
is_group_admin(ga, lock, chat_id, user_id) ==
    IF is_super_admin(user_id) THEN TRUE
    ELSE IF ReadLocked(lock) THEN FALSE
    ELSE Cardinality(AdminRows(ga, chat_id, user_id)) > 0

\* INSERT OR IGNORE under UNIQUE(chat_id, user_id)
add_group_admin(ga, lock, chat_id, user_id) ==
    IF WriteLocked(lock)
    THEN [group_admins |-> ga, ret |-> FALSE]
    ELSE [group_admins |-> IF AdminRows(ga, chat_id, user_id) # {} THEN ga
                           ELSE Append(ga, [chat_id |-> chat_id, user_id |-> user_id]),
          ret |-> TRUE]

----------------------------------------------------------------------------
(* ActivityTracker: event recorder *)

strftime_date(t) == t \div HoursPerDay
hour_of(t) == t % HoursPerDay

\* the row INSERTed for a message
Event(chat_id, user_id, message_type, t) ==
    [chat_id |-> chat_id, user_id |-> user_id, message_type |-> message_type,
     timestamp |-> t, date |-> strftime_date(t), hour |-> hour_of(t)]

\* an exception of connect, execute or commit is logged and nothing is
\* stored: the INSERT waits out a lock on the database and raises, and a call
\* that raises on its own leaves its connection open with the lock it holds
log_activity(a, lock, chat_id, user_id, message_type, t, fault) ==
    IF WriteLocked(lock)
    THEN [activity |-> a, left |-> NoLock]
    ELSE IF fault.at = "log_activity"
    THEN [activity |-> a, left |-> fault.holds]
    ELSE [activity |-> Append(a, Event(chat_id, user_id, message_type, t)),
          left |-> NoLock]

message_type_of(message) ==
    IF "text" \in message THEN "text"
    ELSE IF "photo" \in message THEN "photo"
    ELSE IF "video" \in message THEN "video"
    ELSE IF "sticker" \in message THEN "sticker"
    ELSE IF "document" \in message THEN "document"
    ELSE IF "voice" \in message THEN "voice"
    ELSE "other"

----------------------------------------------------------------------------
(* ActivityTracker: statistics engine *)

cutoff_date(days, t) == strftime_date(t - HoursPerDay * days)

\* the ids of the activity rows WHERE chat_id = ? AND date >= ?
InWindow(a, chat_id, cutoff) ==
    {i \in 1..Len(a) : a[i].chat_id = chat_id /\ a[i].date >= cutoff}

CountBy(a, ids, field, value) == Cardinality({i \in ids : a[i][field] = value})

MinOf(S) == CHOOSE x \in S : \A y \in S : x <= y

\* the group that comes first among groups of equal count: users are grouped
\* along the index idx_chat_user and come out in ascending order; hours are
\* grouped through a sorter that takes the direction of the ORDER BY term, and
\* come out in descending order
FirstOf(field, S) == IF field = "hour" THEN -MinOf({-x : x \in S}) ELSE MinOf(S)

\* GROUP BY key ORDER BY COUNT(*) DESC: the sort keeps the order of the groups
\* among equal counts
RECURSIVE OrderByCountDesc(_, _, _, _)
OrderByCountDesc(a, ids, field, keys) ==
    IF keys = {} THEN <<>>
    ELSE LET top == FirstOf(field, {k \in keys : \A k2 \in keys :
                               CountBy(a, ids, field, k) >= CountBy(a, ids, field, k2)})
         IN <<[key |-> top, count |-> CountBy(a, ids, field, top)]>>
            \o OrderByCountDesc(a, ids, field, keys \ {top})

Limit(s, n) == SubSeq(s, 1, IF Len(s) < n THEN Len(s) ELSE n)

\* mutation: the WHERE clause leaves out date >= ?
get_top_contributors_all_time(a, lock, chat_id, days, limit, t) ==
    IF ReadLocked(lock)
    THEN <<>>
    ELSE LET ids == {i \in 1..Len(a) : a[i].chat_id = chat_id}
         IN Limit(OrderByCountDesc(a, ids, "user_id", {a[i].user_id : i \in ids}), limit)

get_top_contributors(a, lock, chat_id, days, limit, t) ==
    IF ReadLocked(lock)
    THEN <<>>
    ELSE LET ids == InWindow(a, chat_id, cutoff_date(days, t))
         IN Limit(OrderByCountDesc(a, ids, "user_id", {a[i].user_id : i \in ids}), limit)

get_peak_hours(a, lock, chat_id, days, t) ==
    IF ReadLocked(lock)
    THEN <<>>
    ELSE LET ids == InWindow(a, chat_id, cutoff_date(days, t))
         IN Limit(OrderByCountDesc(a, ids, "hour", {a[i].hour : i \in ids}), 5)

\* the data rows under the fixed header row
export_to_csv(a, lock, chat_id, days, t) ==
    IF ReadLocked(lock)
    THEN Nothing
    ELSE LET ids == InWindow(a, chat_id, cutoff_date(days, t))
             rows == OrderByCountDesc(a, ids, "user_id", {a[i].user_id : i \in ids})
         IN [header |-> <<"User ID", "Username", "First Name", "Total Messages",
                          "First Activity", "Last Activity">>,
             rows |-> [k \in 1..Len(rows) |->
                         LET mine == {i \in ids : a[i].user_id = rows[k].key}
                         IN [user_id |-> rows[k].key,
                             total_messages |-> rows[k].count,
                             first_activity |-> MinOf({a[i].date : i \in mine}),
                             last_activity |-> -MinOf({-a[i].date : i \in mine})]]]

MantissaBits == 53

RECURSIVE BitLength(_)
BitLength(k) == IF k = 0 THEN 0 ELSE 1 + BitLength(k \div 2)

\* long division of r by unique, count significant binary digits further
\* (zeros in front of the first 1 of a quotient below 1 are not significant):
\* the remainder left and the last digit written
RECURSIVE Digits(_, _, _, _)
Digits(r, unique, bit, count) ==
    IF count = 0 THEN [r |-> r, bit |-> bit]
    ELSE LET digit == (2 * r) \div unique
         IN Digits((2 * r) % unique, unique, digit,
                   IF count = MantissaBits /\ digit = 0 THEN count ELSE count - 1)

\* total / unique is the double nearest to the quotient (a tie goes to the
\* even mantissa): 1 when that double lies above the quotient, -1 when it lies
\* below, 0 when the quotient is a double
truediv_error(total, unique) ==
    LET whole == total \div unique
        kept == Digits(total % unique, unique, whole % 2, MantissaBits - BitLength(whole))
    IN IF total % unique = 0 THEN 0
       ELSE IF kept.r = 0 THEN 0
       ELSE IF 2 * kept.r > unique \/ (2 * kept.r = unique /\ kept.bit = 1) THEN 1
       ELSE -1

\* round(total / unique, 1), in tenths: round() rounds the double, not the
\* quotient, so a quotient at an exact half goes where the double lies, and to
\* the even tenth when the double is the quotient
RoundTenths(total, unique) ==
    LET q == (10 * total) \div unique
        r == (10 * total) % unique
        e == IF total = 0 THEN 0 ELSE truediv_error(total, unique)
    IN IF 2 * r > unique THEN q + 1
       ELSE IF 2 * r < unique THEN q
       ELSE IF e = 1 \/ (e = 0 /\ q % 2 = 1) THEN q + 1
       ELSE q

\* mutation: the totals are counted over every chat
get_overall_stats_all_chats(a, lock, chat_id, t) ==
    IF ReadLocked(lock)
    THEN Nothing
    ELSE LET all == 1..Len(a)
             today == {i \in all : a[i].date = strftime_date(t)}
             week == InWindow(a, chat_id, cutoff_date(7, t))
             unique_users == Cardinality({a[i].user_id : i \in all})
         IN [total_messages |-> Cardinality(all),
             unique_users |-> unique_users,
             messages_today |-> Cardinality(today),
             active_today |-> Cardinality({a[i].user_id : i \in today}),
             messages_week |-> Cardinality(week),
             avg_per_user_tenths |-> IF unique_users > 0
                                     THEN RoundTenths(Cardinality(all), unique_users)
                                     ELSE 0]

get_overall_stats(a, lock, chat_id, t) ==
    IF ReadLocked(lock)
    THEN Nothing
    ELSE LET all == {i \in 1..Len(a) : a[i].chat_id = chat_id}
             today == {i \in all : a[i].date = strftime_date(t)}
             week == InWindow(a, chat_id, cutoff_date(7, t))
             unique_users == Cardinality({a[i].user_id : i \in all})
         IN [total_messages |-> Cardinality(all),
             unique_users |-> unique_users,
             messages_today |-> Cardinality(today),
             active_today |-> Cardinality({a[i].user_id : i \in today}),
             messages_week |-> Cardinality(week),
             avg_per_user_tenths |-> IF unique_users > 0
                                     THEN RoundTenths(Cardinality(all), unique_users)
                                     ELSE 0]

\* the pending rows (their order, by added_date, is not modelled)
get_pending_groups(g, lock) ==
    IF ReadLocked(lock) THEN {} ELSE {r \in g : r.status = "pending"}

\* mutation: a row past the deadline of its status is left out of the listing
get_all_active_groups_unexpired(g, lock, a) ==
    IF ReadLocked(lock)
    THEN {}
    ELSE {[chat_id |-> r.chat_id, status |-> r.status,
           trial_end_date |-> r.trial_end_date,
           subscription_end_date |-> r.subscription_end_date,
           unique_users |-> Cardinality({a[i].user_id : i \in
                                           {j \in 1..Len(a) : a[j].chat_id = r.chat_id}}),
           total_messages |-> Cardinality({j \in 1..Len(a) : a[j].chat_id = r.chat_id})]
          : r \in {r2 \in g :
                     \/ /\ r2.status = "trial"
                        /\ ~(Truthy(r2.trial_end_date) /\ now > fromisoformat(r2.trial_end_date))
                     \/ /\ r2.status = "active"
                        /\ ~(/\ Truthy(r2.subscription_end_date)
                             /\ now > fromisoformat(r2.subscription_end_date))}}

\* the rows stored as trial or active, each with the totals of its chat
get_all_active_groups(g, lock, a) ==
    IF ReadLocked(lock)
    THEN {}
    ELSE {[chat_id |-> r.chat_id, status |-> r.status,
           trial_end_date |-> r.trial_end_date,
           subscription_end_date |-> r.subscription_end_date,
           unique_users |-> Cardinality({a[i].user_id : i \in
                                           {j \in 1..Len(a) : a[j].chat_id = r.chat_id}}),
           total_messages |-> Cardinality({j \in 1..Len(a) : a[j].chat_id = r.chat_id})]
          : r \in {r2 \in g : r2.status \in {"trial", "active"}}}

----------------------------------------------------------------------------
(* ActivityTracker: backup / restore bridge *)

\* a None value is written as a blank cell, which reads back as the empty text
Cell(x) == IF x = NULL THEN EMPTY ELSE x

\* SELECT * FROM groups: rows in primary-key order
RECURSIVE SelectAll(_)
SelectAll(g) ==
    IF g = {} THEN <<>>
    ELSE LET first == CHOOSE r \in g : \A r2 \in g : r.chat_id <= r2.chat_id
         IN <<first>> \o SelectAll(g \ {first})

\* the worksheet rows written for the Group rows at time t
BackupRows(rows, t) ==
    [k \in 1..Len(rows) |->
        [chat_id |-> rows[k].chat_id,
         status |-> rows[k].status,
         trial_end_date |-> Cell(rows[k].trial_end_date),
         subscription_end_date |-> Cell(rows[k].subscription_end_date),
         last_backup |-> Iso(t)]]

\* mutation: the worksheet is not cleared before the rows are appended
backup_to_sheets_merge(sheet, g, lock, t, fault) ==
    IF sheet = NoSheet
    THEN [sheet |-> sheet, ret |-> FALSE]
    ELSE LET rows == SelectAll(g)
         IN IF fault.at \in {"select", "clear"} \/ ReadLocked(lock)
            THEN [sheet |-> sheet, ret |-> FALSE]
            ELSE IF fault.at = "insert_row" \/ (fault.at = "append_rows" /\ rows # <<>>)
            THEN [sheet |-> sheet, ret |-> FALSE]
            ELSE [sheet |-> Sheet(sheet.rows \o BackupRows(rows, t)), ret |-> TRUE]

\* an exception of the SELECT or of clear() leaves the worksheet as it was,
\* one of insert_row or append_rows leaves it cleared
backup_to_sheets(sheet, g, lock, t, fault) ==
    IF sheet = NoSheet
    THEN [sheet |-> sheet, ret |-> FALSE]
    ELSE LET rows == SelectAll(g)
         IN IF fault.at \in {"select", "clear"} \/ ReadLocked(lock)
            THEN [sheet |-> sheet, ret |-> FALSE]
            ELSE IF fault.at = "insert_row" \/ (fault.at = "append_rows" /\ rows # <<>>)
            THEN [sheet |-> Sheet(<<>>), ret |-> FALSE]
            ELSE [sheet |-> Sheet(BackupRows(rows, t)), ret |-> TRUE]

\* INSERT OR REPLACE INTO groups
InsertOrReplace(g, record) ==
    (g \ RowsOf(g, record.chat_id))
        \cup {Row(record.chat_id, record.status,
                  record.trial_end_date, record.subscription_end_date)}

RECURSIVE RestoreRows(_, _)
RestoreRows(g, records) ==
    IF records = <<>> THEN g
    ELSE RestoreRows(InsertOrReplace(g, Head(records)), Tail(records))

\* restore_from_sheets answers (False, message) without touching the table
Unrestored(g, message, left) ==
    [groups |-> g, ret |-> FALSE, message |-> message, left |-> left]

\* mutation: the table is emptied before the worksheet rows are inserted
restore_from_sheets_replace_all(sheet, g, lock, fault) ==
    IF sheet = NoSheet
    THEN Unrestored(g, "Backup sheet not configured", NoLock)
    ELSE IF fault.at = "get_all_records"
    THEN Unrestored(g, "Restore failed", NoLock)
    ELSE IF sheet.rows = <<>>
    THEN Unrestored(g, "No backup data found", NoLock)
    ELSE IF WriteLocked(lock)
    THEN Unrestored(g, "Restore failed", NoLock)
    ELSE IF fault.at = "execute" /\ fault.row \in 1..Len(sheet.rows)
    THEN Unrestored(g, "Restore failed",
                    IF fault.row = 1 THEN fault.holds ELSE "reserved")
    ELSE [groups |-> RestoreRows({}, sheet.rows), ret |-> TRUE,
          message |-> "Restored groups from backup", left |-> NoLock]

\* mutation: every INSERT is committed as it is made (autocommit)
restore_from_sheets_autocommit(sheet, g, lock, fault) ==
    IF sheet = NoSheet
    THEN Unrestored(g, "Backup sheet not configured", NoLock)
    ELSE IF fault.at = "get_all_records"
    THEN Unrestored(g, "Restore failed", NoLock)
    ELSE IF sheet.rows = <<>>
    THEN Unrestored(g, "No backup data found", NoLock)
    ELSE IF WriteLocked(lock)
    THEN Unrestored(g, "Restore failed", NoLock)
    ELSE IF fault.at = "execute" /\ fault.row \in 1..Len(sheet.rows)
    THEN Unrestored(RestoreRows(g, SubSeq(sheet.rows, 1, fault.row - 1)),
                    "Restore failed", NoLock)
    ELSE [groups |-> RestoreRows(g, sheet.rows), ret |-> TRUE,
          message |-> "Restored groups from backup", left |-> NoLock]

\* the INSERTs run in one transaction, committed after the last row.  An
\* INSERT that raises leaves the transaction open on a connection that is not
\* closed: the rows inserted before it are never seen by another connection,
\* and the connection keeps the RESERVED lock of that transaction.  An INSERT
\* of the first row that raises before it has run has opened no transaction
\* and leaves no lock.  With the database locked for writing the first INSERT
\* raises.
restore_from_sheets(sheet, g, lock, fault) ==
    IF sheet = NoSheet
    THEN Unrestored(g, "Backup sheet not configured", NoLock)
    ELSE IF fault.at = "get_all_records"
    THEN Unrestored(g, "Restore failed", NoLock)
    ELSE IF sheet.rows = <<>>
    THEN Unrestored(g, "No backup data found", NoLock)
    ELSE IF WriteLocked(lock)
    THEN Unrestored(g, "Restore failed", NoLock)
    ELSE IF fault.at = "execute" /\ fault.row \in 1..Len(sheet.rows)
    THEN Unrestored(g, "Restore failed",
                    IF fault.row = 1 THEN fault.holds ELSE "reserved")
    ELSE [groups |-> RestoreRows(g, sheet.rows), ret |-> TRUE,
          message |-> "Restored groups from backup", left |-> NoLock]

----------------------------------------------------------------------------
(* Replies *)

MsgStartPending == "This bot requires authorization to track activity. Contact the bot owner to activate tracking for this group."
MsgStartExpired == "Your trial/subscription has expired. Contact the bot owner to renew access."
MsgWelcome == "Welcome to FelixActivityBot!"
MsgGroupsOnly == "This command only works in groups."
MsgNotAuthorized == "This group is not authorized. Contact the bot owner."
MsgNoData == "No activity data available yet."
MsgAdminsOnly == "This command is only available to group administrators."
MsgNoStats == "Unable to retrieve statistics."
MsgExportFailed == "Failed to export data."
NoReply == ""

\* get_group_status was not called
NotRead == ""
NoQuery == ""
NoResult == <<>>

\* command arguments: a token is the text of an integer, a digit character
\* that is not a decimal digit (a superscript two) or some other word
IntTok(n) == [kind |-> "int", v |-> n]
WordTok == [kind |-> "word", v |-> 0]
SupTok == [kind |-> "superscript", v |-> 2]
\* str.isdigit: every character is a digit, so no sign
isdigit(tok) == (tok.kind = "int" /\ tok.v >= 0) \/ tok.kind = "superscript"
\* int(tok) returns; otherwise it raises ValueError
IsInt(tok) == tok.kind = "int"
Min(x, y) == IF x < y THEN x ELSE y

\* what a handler did: the value register_group returned (is_new), the value
\* get_group_status returned (status), whether log_activity stored a row
\* (logged), the aggregation that ran (query) with its look-back or the granted
\* amount (arg), the text sent back (reply), and the lock of a connection it
\* left open (left)
Outcome(g, a, ga, sheet, n, is_new, status, logged, query, arg, reply) ==
    [groups |-> g, activity |-> a, group_admins |-> ga, backup_sheet |-> sheet,
     notifications |-> n,
     is_new |-> is_new, status |-> status, logged |-> logged,
     query |-> query, arg |-> arg, result |-> NoResult, reply |-> reply,
     fault |-> NoFault.at, left |-> NoLock]

\* the outcome of a handler run in which the call fault.at raises when made
Under(fault, o) == [o EXCEPT !.fault = fault.at]

\* the outcome of a handler that left a connection open, with the lock it holds
Leaving(lock, o) == [o EXCEPT !.left = lock]

\* the outcome of a handler whose answer shows what its query returned
WithResult(o, result) == [o EXCEPT !.result = result]

Ignored(g, a, ga, sheet, n, reply) ==
    Outcome(g, a, ga, sheet, n, FALSE, NotRead, FALSE, NoQuery, 0, reply)

\* the handler did not answer: an exception left it for the dispatcher
Exceptions == {"ValueError"}
Raise(g, a, ga, sheet, n, status, exc) ==
    Outcome(g, a, ga, sheet, n, FALSE, status, FALSE, NoQuery, 0, exc)

----------------------------------------------------------------------------
(* Handlers, as functions of the stored state and the update *)

\* mutation: the gate lets every status but expired through
track_message_weak_gate(g, a, ga, sheet, n, lock, chat_id, chat_type, user_id, message, t, fault) ==
    IF ~IsGroupChat(chat_type)
    THEN Ignored(g, a, ga, sheet, n, NoReply)
    ELSE LET reg == register_group(g, lock, chat_id)
             n1 == IF reg.ret THEN [n EXCEPT ![chat_id] = @ + 1] ELSE n
             st == get_group_status(reg.groups, lock, chat_id, t, fault)
         IN IF st.ret = "expired"
            THEN Outcome(st.groups, a, ga, sheet, n1,
                         reg.ret, st.ret, FALSE, NoQuery, 0, NoReply)
            ELSE LET logged == log_activity(a, lock, chat_id, user_id,
                                            message_type_of(message), t, fault)
                 IN Leaving(logged.left,
                            Outcome(st.groups, logged.activity, ga, sheet, n1,
                                    reg.ret, st.ret, logged.activity # a,
                                    NoQuery, 0, NoReply))

\* mutation: the kind of the chat is not looked at
track_message_any_chat(g, a, ga, sheet, n, lock, chat_id, chat_type, user_id, message, t, fault) ==
    LET reg == register_group(g, lock, chat_id)
        n1 == IF reg.ret THEN [n EXCEPT ![chat_id] = @ + 1] ELSE n
        st == get_group_status(reg.groups, lock, chat_id, t, fault)
    IN IF st.ret \notin {"trial", "active"}
       THEN Outcome(st.groups, a, ga, sheet, n1,
                    reg.ret, st.ret, FALSE, NoQuery, 0, NoReply)
       ELSE LET logged == log_activity(a, lock, chat_id, user_id,
                                       message_type_of(message), t, fault)
            IN Leaving(logged.left,
                       Outcome(st.groups, logged.activity, ga, sheet, n1,
                               reg.ret, st.ret, logged.activity # a,
                               NoQuery, 0, NoReply))

track_message(g, a, ga, sheet, n, lock, chat_id, chat_type, user_id, message, t, fault) ==
    IF ~IsGroupChat(chat_type)
    THEN Ignored(g, a, ga, sheet, n, NoReply)
    ELSE LET reg == register_group(g, lock, chat_id)
             n1 == IF reg.ret THEN [n EXCEPT ![chat_id] = @ + 1] ELSE n
             st == get_group_status(reg.groups, lock, chat_id, t, fault)
         IN IF st.ret \notin {"trial", "active"}
            THEN Outcome(st.groups, a, ga, sheet, n1,
                         reg.ret, st.ret, FALSE, NoQuery, 0, NoReply)
            ELSE LET logged == log_activity(a, lock, chat_id, user_id,
                                            message_type_of(message), t, fault)
                 IN Leaving(logged.left,
                            Outcome(st.groups, logged.activity, ga, sheet, n1,
                                    reg.ret, st.ret, logged.activity # a,
                                    NoQuery, 0, NoReply))

\* track_message up to the await of the new-group notification, which it
\* reaches when register_group returned True
track_message_register(g, a, ga, sheet, n, lock, chat_id, chat_type) ==
    IF ~IsGroupChat(chat_type)
    THEN Ignored(g, a, ga, sheet, n, NoReply)
    ELSE LET reg == register_group(g, lock, chat_id)
             n1 == IF reg.ret THEN [n EXCEPT ![chat_id] = @ + 1] ELSE n
         IN Outcome(reg.groups, a, ga, sheet, n1, reg.ret, NotRead, FALSE, NoQuery, 0,
                    NoReply)

\* track_message from the status read on, with the locals it kept
track_message_record(g, a, ga, sheet, n, lock, is_new, chat_id, user_id, message, t, fault) ==
    LET st == get_group_status(g, lock, chat_id, t, fault)
    IN IF st.ret \notin {"trial", "active"}
       THEN Outcome(st.groups, a, ga, sheet, n,
                    is_new, st.ret, FALSE, NoQuery, 0, NoReply)
       ELSE LET logged == log_activity(a, lock, chat_id, user_id,
                                       message_type_of(message), t, fault)
            IN Leaving(logged.left,
                       Outcome(st.groups, logged.activity, ga, sheet, n,
                               is_new, st.ret, logged.activity # a,
                               NoQuery, 0, NoReply))

start_command(g, a, ga, sheet, n, lock, chat_id, chat_type, t) ==
    IF IsGroupChat(chat_type)
    THEN LET st == get_group_status(g, lock, chat_id, t, NoFault)
         IN Outcome(st.groups, a, ga, sheet, n, FALSE, st.ret, FALSE, NoQuery, 0,
                    IF st.ret = "pending" THEN MsgStartPending
                    ELSE IF st.ret = "expired" THEN MsgStartExpired
                    ELSE MsgWelcome)
    ELSE Ignored(g, a, ga, sheet, n, MsgWelcome)

\* mutation: only an expired group is turned away
leaderboard_command_weak_gate(g, a, ga, sheet, n, lock, chat_id, chat_type, args, t, fault) ==
    IF ~IsGroupChat(chat_type)
    THEN Ignored(g, a, ga, sheet, n, MsgGroupsOnly)
    ELSE LET st == get_group_status(g, lock, chat_id, t, fault)
         IN IF st.ret = "expired"
            THEN Outcome(st.groups, a, ga, sheet, n, FALSE, st.ret, FALSE, NoQuery, 0,
                         MsgNotAuthorized)
            ELSE IF args # <<>> /\ isdigit(args[1]) /\ ~IsInt(args[1])
            THEN Raise(st.groups, a, ga, sheet, n, st.ret, "ValueError")
            ELSE LET days == IF args # <<>> /\ isdigit(args[1])
                             THEN Min(args[1].v, LeaderboardMaxDays)
                             ELSE LeaderboardDefaultDays
                     contributors == get_top_contributors(a, lock, chat_id, days, 10, t)
                 IN WithResult(Outcome(st.groups, a, ga, sheet, n, FALSE, st.ret, FALSE,
                                       "get_top_contributors", days,
                                       IF contributors = <<>> THEN MsgNoData
                                       ELSE "Top Contributors"),
                               contributors)

\* mutation: the day count is used as typed
leaderboard_command_unclamped(g, a, ga, sheet, n, lock, chat_id, chat_type, args, t, fault) ==
    IF ~IsGroupChat(chat_type)
    THEN Ignored(g, a, ga, sheet, n, MsgGroupsOnly)
    ELSE LET st == get_group_status(g, lock, chat_id, t, fault)
         IN IF st.ret \notin {"trial", "active"}
            THEN Outcome(st.groups, a, ga, sheet, n, FALSE, st.ret, FALSE, NoQuery, 0,
                         MsgNotAuthorized)
            ELSE IF args # <<>> /\ isdigit(args[1]) /\ ~IsInt(args[1])
            THEN Raise(st.groups, a, ga, sheet, n, st.ret, "ValueError")
            ELSE LET days == IF args # <<>> /\ isdigit(args[1])
                             THEN args[1].v
                             ELSE LeaderboardDefaultDays
                     contributors == get_top_contributors(a, lock, chat_id, days, 10, t)
                 IN WithResult(Outcome(st.groups, a, ga, sheet, n, FALSE, st.ret, FALSE,
                                       "get_top_contributors", days,
                                       IF contributors = <<>> THEN MsgNoData
                                       ELSE "Top Contributors"),
                               contributors)

leaderboard_command(g, a, ga, sheet, n, lock, chat_id, chat_type, args, t, fault) ==
    IF ~IsGroupChat(chat_type)
    THEN Ignored(g, a, ga, sheet, n, MsgGroupsOnly)
    ELSE LET st == get_group_status(g, lock, chat_id, t, fault)
         IN IF st.ret \notin {"trial", "active"}
            THEN Outcome(st.groups, a, ga, sheet, n, FALSE, st.ret, FALSE, NoQuery, 0,
                         MsgNotAuthorized)
            ELSE IF args # <<>> /\ isdigit(args[1]) /\ ~IsInt(args[1])
            THEN Raise(st.groups, a, ga, sheet, n, st.ret, "ValueError")
            ELSE LET days == IF args # <<>> /\ isdigit(args[1])
                             THEN Min(args[1].v, LeaderboardMaxDays)
                             ELSE LeaderboardDefaultDays
                     contributors == get_top_contributors(a, lock, chat_id, days, 10, t)
                 IN WithResult(Outcome(st.groups, a, ga, sheet, n, FALSE, st.ret, FALSE,
                                       "get_top_contributors", days,
                                       IF contributors = <<>> THEN MsgNoData
                                       ELSE "Top Contributors"),
                               contributors)

\* mutation: the command is itself recorded as an event of the chat
peak_times_command_logged(g, a, ga, sheet, n, lock, chat_id, chat_type, t, fault) ==
    IF ~IsGroupChat(chat_type)
    THEN Ignored(g, a, ga, sheet, n, MsgGroupsOnly)
    ELSE LET st == get_group_status(g, lock, chat_id, t, fault)
         IN IF st.ret \notin {"trial", "active"}
            THEN Outcome(st.groups, a, ga, sheet, n, FALSE, st.ret, FALSE, NoQuery, 0,
                         MsgNotAuthorized)
            ELSE LET logged == log_activity(a, lock, chat_id, 0, "text", t, fault).activity
                     peak_hours == get_peak_hours(logged, lock, chat_id, PeakDays, t)
                 IN WithResult(Outcome(st.groups, logged, ga, sheet, n, FALSE, st.ret,
                                       FALSE, "get_peak_hours", PeakDays,
                                       IF peak_hours = <<>> THEN MsgNoData
                                       ELSE "Peak Activity Hours"),
                               peak_hours)

peak_times_command(g, a, ga, sheet, n, lock, chat_id, chat_type, t, fault) ==
    IF ~IsGroupChat(chat_type)
    THEN Ignored(g, a, ga, sheet, n, MsgGroupsOnly)
    ELSE LET st == get_group_status(g, lock, chat_id, t, fault)
         IN IF st.ret \notin {"trial", "active"}
            THEN Outcome(st.groups, a, ga, sheet, n, FALSE, st.ret, FALSE, NoQuery, 0,
                         MsgNotAuthorized)
            ELSE LET peak_hours == get_peak_hours(a, lock, chat_id, PeakDays, t)
                 IN WithResult(Outcome(st.groups, a, ga, sheet, n, FALSE, st.ret, FALSE,
                                       "get_peak_hours", PeakDays,
                                       IF peak_hours = <<>> THEN MsgNoData
                                       ELSE "Peak Activity Hours"),
                               peak_hours)

community_stats_command(g, a, ga, sheet, n, lock, chat_id, chat_type, t, fault) ==
    IF ~IsGroupChat(chat_type)
    THEN Ignored(g, a, ga, sheet, n, MsgGroupsOnly)
    ELSE LET st == get_group_status(g, lock, chat_id, t, fault)
         IN IF st.ret \notin {"trial", "active"}
            THEN Outcome(st.groups, a, ga, sheet, n, FALSE, st.ret, FALSE, NoQuery, 0,
                         MsgNotAuthorized)
            ELSE LET stats == get_overall_stats(a, lock, chat_id, t)
                 IN WithResult(Outcome(st.groups, a, ga, sheet, n, FALSE, st.ret, FALSE,
                                       "get_overall_stats", 0,
                                       IF stats = Nothing THEN MsgNoStats
                                       ELSE "Community Statistics"),
                               stats)

export_data_command(g, a, ga, sheet, n, lock, chat_id, chat_type, user_id, args, t, fault) ==
    IF ~IsGroupChat(chat_type)
    THEN Ignored(g, a, ga, sheet, n, MsgGroupsOnly)
    ELSE IF ~is_group_admin(ga, lock, chat_id, user_id)
    THEN Ignored(g, a, ga, sheet, n, MsgAdminsOnly)
    ELSE LET st == get_group_status(g, lock, chat_id, t, fault)
         IN IF st.ret \notin {"trial", "active"}
            THEN Outcome(st.groups, a, ga, sheet, n, FALSE, st.ret, FALSE, NoQuery, 0,
                         MsgNotAuthorized)
            ELSE IF args # <<>> /\ isdigit(args[1]) /\ ~IsInt(args[1])
            THEN Raise(st.groups, a, ga, sheet, n, st.ret, "ValueError")
            ELSE LET days == IF args # <<>> /\ isdigit(args[1])
                             THEN Min(args[1].v, ExportMaxDays)
                             ELSE ExportDefaultDays
                     csv_data == export_to_csv(a, lock, chat_id, days, t)
                 IN WithResult(Outcome(st.groups, a, ga, sheet, n, FALSE, st.ret, FALSE,
                                       "export_to_csv", days,
                                       IF csv_data = Nothing THEN MsgExportFailed
                                       ELSE "Activity data"),
                               csv_data)

approve_trial_command(g, a, ga, sheet, n, lock, user_id, args, t) ==
    IF ~is_super_admin(user_id)
    THEN Ignored(g, a, ga, sheet, n, NoReply)
    ELSE IF args = <<>>
    THEN Ignored(g, a, ga, sheet, n, "Usage: /approve_trial <chat_id> [hours]")
    ELSE IF ~IsInt(args[1]) \/ (Len(args) > 1 /\ ~IsInt(args[2]))
    THEN Ignored(g, a, ga, sheet, n, "Invalid chat ID or hours value.")
    ELSE LET hours == IF Len(args) > 1 THEN args[2].v ELSE DefaultTrialHours
             done == approve_group_trial(g, lock, args[1].v, hours, t)
         IN Outcome(done.groups, a, ga, sheet, n, FALSE, NotRead, FALSE, NoQuery, hours,
                    IF done.ret THEN "Trial approved" ELSE "Failed to approve trial.")

extend_subscription_command(g, a, ga, sheet, n, lock, user_id, args, t) ==
    IF ~is_super_admin(user_id)
    THEN Ignored(g, a, ga, sheet, n, NoReply)
    ELSE IF args = <<>>
    THEN Ignored(g, a, ga, sheet, n, "Usage: /extend_subscription <chat_id> [days]")
    ELSE IF ~IsInt(args[1]) \/ (Len(args) > 1 /\ ~IsInt(args[2]))
    THEN Ignored(g, a, ga, sheet, n, "Invalid chat ID or days value.")
    ELSE LET days == IF Len(args) > 1 THEN args[2].v ELSE DefaultSubscriptionDays
             done == extend_subscription(g, lock, args[1].v, days, t)
         IN Outcome(done.groups, a, ga, sheet, n, FALSE, NotRead, FALSE, NoQuery, days,
                    IF done.ret THEN "Subscription extended"
                    ELSE "Failed to extend subscription.")

add_group_admin_command(g, a, ga, sheet, n, lock, user_id, args) ==
    IF ~is_super_admin(user_id)
    THEN Ignored(g, a, ga, sheet, n, NoReply)
    ELSE IF Len(args) < 2
    THEN Ignored(g, a, ga, sheet, n, "Usage: /add_group_admin <chat_id> <user_id>")
    ELSE IF ~IsInt(args[1]) \/ ~IsInt(args[2])
    THEN Ignored(g, a, ga, sheet, n, "Invalid chat ID or user ID.")
    ELSE LET done == add_group_admin(ga, lock, args[1].v, args[2].v)
         IN Outcome(g, a, done.group_admins, sheet, n, FALSE, NotRead, FALSE, NoQuery, 0,
                    IF done.ret THEN "Added admin" ELSE "Failed to add admin.")

\* mutation: the events of the revoked chat are deleted with its access
revoke_access_command_purge(g, a, ga, sheet, n, lock, user_id, args) ==
    IF ~is_super_admin(user_id)
    THEN Ignored(g, a, ga, sheet, n, NoReply)
    ELSE IF args = <<>>
    THEN Ignored(g, a, ga, sheet, n, "Usage: /revoke_access <chat_id>")
    ELSE IF ~IsInt(args[1])
    THEN Ignored(g, a, ga, sheet, n, "Invalid chat ID.")
    ELSE LET done == update_group_status(g, lock, args[1].v, "expired")
         IN Outcome(done.groups, SelectSeq(a, LAMBDA e : e.chat_id # args[1].v),
                    ga, sheet, n, FALSE, NotRead, FALSE, NoQuery, 0,
                    IF done.ret THEN "Access revoked" ELSE "Failed to revoke access.")

\* mutation: the group is sent back to pending instead of expired
revoke_access_command_pending(g, a, ga, sheet, n, lock, user_id, args) ==
    IF ~is_super_admin(user_id)
    THEN Ignored(g, a, ga, sheet, n, NoReply)
    ELSE IF args = <<>>
    THEN Ignored(g, a, ga, sheet, n, "Usage: /revoke_access <chat_id>")
    ELSE IF ~IsInt(args[1])
    THEN Ignored(g, a, ga, sheet, n, "Invalid chat ID.")
    ELSE LET done == update_group_status(g, lock, args[1].v, "pending")
         IN Outcome(done.groups, a, ga, sheet, n, FALSE, NotRead, FALSE, NoQuery, 0,
                    IF done.ret THEN "Access revoked" ELSE "Failed to revoke access.")

revoke_access_command(g, a, ga, sheet, n, lock, user_id, args) ==
    IF ~is_super_admin(user_id)
    THEN Ignored(g, a, ga, sheet, n, NoReply)
    ELSE IF args = <<>>
    THEN Ignored(g, a, ga, sheet, n, "Usage: /revoke_access <chat_id>")
    ELSE IF ~IsInt(args[1])
    THEN Ignored(g, a, ga, sheet, n, "Invalid chat ID.")
    ELSE LET done == update_group_status(g, lock, args[1].v, "expired")
         IN Outcome(done.groups, a, ga, sheet, n, FALSE, NotRead, FALSE, NoQuery, 0,
                    IF done.ret THEN "Access revoked" ELSE "Failed to revoke access.")

backup_now_command(g, a, ga, sheet, n, lock, user_id, t, fault) ==
    IF ~is_super_admin(user_id)
    THEN Ignored(g, a, ga, sheet, n, NoReply)
    ELSE LET done == backup_to_sheets(sheet, g, lock, t, fault)
         IN Outcome(g, a, ga, done.sheet, n, FALSE, NotRead, FALSE, NoQuery, 0,
                    IF done.ret THEN "Backup completed successfully."
                    ELSE "Backup failed. Check logs.")

\* the job main() schedules when a spreadsheet is configured: no update and no
\* caller; the super admin is told when the backup was made
daily_backup_task(g, a, ga, sheet, n, lock, t, fault) ==
    LET done == backup_to_sheets(sheet, g, lock, t, fault)
    IN Outcome(g, a, ga, done.sheet, n, FALSE, NotRead, FALSE, NoQuery, 0,
               IF done.ret THEN "Daily backup completed successfully." ELSE NoReply)

\* mutation: the caller is not checked
restore_backup_command_open(g, a, ga, sheet, n, lock, user_id, fault) ==
    LET done == restore_from_sheets(sheet, g, lock, fault)
    IN Leaving(done.left,
               Outcome(done.groups, a, ga, sheet, n, FALSE, NotRead, FALSE, NoQuery,
                       fault.row, done.message))

restore_backup_command(g, a, ga, sheet, n, lock, user_id, fault) ==
    IF ~is_super_admin(user_id)
    THEN Ignored(g, a, ga, sheet, n, NoReply)
    ELSE LET done == restore_from_sheets(sheet, g, lock, fault)
         IN Leaving(done.left,
                    Outcome(done.groups, a, ga, sheet, n, FALSE, NotRead, FALSE, NoQuery,
                            fault.row, done.message))

pending_groups_command(g, a, ga, sheet, n, lock, user_id) ==
    IF ~is_super_admin(user_id)
    THEN Ignored(g, a, ga, sheet, n, NoReply)
    ELSE WithResult(Outcome(g, a, ga, sheet, n, FALSE, NotRead, FALSE,
                            "get_pending_groups", 0,
                            IF get_pending_groups(g, lock) = {} THEN "No pending groups."
                            ELSE "Pending Groups"),
                    get_pending_groups(g, lock))

my_groups_command(g, a, ga, sheet, n, lock, user_id) ==
    IF ~is_super_admin(user_id)
    THEN Ignored(g, a, ga, sheet, n, NoReply)
    ELSE WithResult(Outcome(g, a, ga, sheet, n, FALSE, NotRead, FALSE,
                            "get_all_active_groups", 0,
                            IF get_all_active_groups(g, lock, a) = {} THEN "No active groups."
                            ELSE "Active Groups"),
                    get_all_active_groups(g, lock, a))

download_db_command(g, a, ga, sheet, n, lock, user_id) ==
    IF ~is_super_admin(user_id)
    THEN Ignored(g, a, ga, sheet, n, NoReply)
    ELSE Ignored(g, a, ga, sheet, n, "Database backup")

----------------------------------------------------------------------------
(* The state machine *)

NoChat == 0
NoUser == 0

\* the writes of a handler are stored and what it did is observed; the
\* activity table is explored up to cap rows
Store(cap, op, chat_id, user_id, args, o) ==
    /\ IF Len(o.activity) > Len(activity) THEN Len(o.activity) <= cap ELSE TRUE
    /\ groups' = o.groups
    /\ activity' = o.activity
    /\ group_admins' = o.group_admins
    /\ backup_sheet' = o.backup_sheet
    /\ notifications' = o.notifications
    /\ last' = [op |-> op, chat_id |-> chat_id, user_id |-> user_id, args |-> args,
                is_new |-> o.is_new, status |-> o.status,
                logged |-> o.logged, query |-> o.query, arg |-> o.arg,
                result |-> o.result, reply |-> o.reply, fault |-> o.fault]
    /\ db_lock' = IF o.left # NoLock THEN o.left ELSE db_lock
    /\ now' = now

\* the dispatcher hands an update to its handler once the handler of the
\* update before has returned; the handler runs to completion: its writes are
\* stored, its answer is sent
ApplyWithin(cap, op, chat_id, user_id, args, o) ==
    /\ suspended = {}
    /\ Store(cap, op, chat_id, user_id, args, o)
    /\ suspended' = suspended

Apply(op, chat_id, user_id, args, o) == ApplyWithin(MaxEvents, op, chat_id, user_id, args, o)

TargetChat(args) == IF args # <<>> /\ IsInt(args[1]) THEN args[1].v ELSE NoChat

Idle ==
    [op |-> "init", chat_id |-> NoChat, user_id |-> NoUser, args |-> <<>>,
     is_new |-> FALSE, status |-> NotRead,
     logged |-> FALSE, query |-> NoQuery, arg |-> 0, result |-> NoResult,
     reply |-> NoReply, fault |-> NoFault.at]

\* the tracker as constructed on a new database, no backup spreadsheet configured
Init ==
    /\ now = 0
    /\ groups = {}
    /\ activity = <<>>
    /\ group_admins = <<>>
    /\ backup_sheet = NoSheet
    /\ notifications = [c \in Chats |-> 0]
    /\ last = Idle
    /\ suspended = {}
    /\ db_lock = NoLock

\* the tracker as constructed on a new database with the backup spreadsheet
\* configured and its worksheet new
InitBridge ==
    /\ now = 0
    /\ groups = {}
    /\ activity = <<>>
    /\ group_admins = <<>>
    /\ backup_sheet = Sheet(<<>>)
    /\ notifications = [c \in Chats |-> 0]
    /\ last = Idle
    /\ suspended = {}
    /\ db_lock = NoLock

\* a row an earlier process backed up, found in the worksheet at start
PriorRow ==
    [chat_id |-> -100, status |-> "trial", trial_end_date |-> Iso(0),
     subscription_end_date |-> EMPTY, last_backup |-> Iso(0)]

\* the tracker as constructed on a new database after the old one was lost:
\* the worksheet holds what the earlier process backed up
InitRecovery ==
    /\ now = 0
    /\ groups = {}
    /\ activity = <<>>
    /\ group_admins = <<>>
    /\ backup_sheet = Sheet(<<PriorRow>>)
    /\ notifications = [c \in Chats |-> 0]
    /\ last = Idle
    /\ suspended = {}
    /\ db_lock = NoLock

Tick ==
    /\ now < MaxTime
    /\ now' = now + 1
    /\ UNCHANGED <<groups, activity, group_admins, backup_sheet, notifications, last,
                   suspended, db_lock>>

\* the garbage collector closes the connection that was left open: its
\* transaction is rolled back and its lock released
Collect ==
    /\ db_lock # NoLock
    /\ db_lock' = NoLock
    /\ last' = [Idle EXCEPT !.op = "collect"]
    /\ UNCHANGED <<now, groups, activity, group_admins, backup_sheet, notifications,
                   suspended>>

\* a message is handed to track_message, no handler being at work.  When
\* register_group returns True the handler sends the new-group notification
\* and waits for it at its await, keeping its locals; otherwise it has no
\* await and runs to its end
TrackMessageWithin(cap, chats, types, users, msgs, faults) ==
    \E chat_id \in chats, chat_type \in types, user_id \in users, message \in msgs,
       fault \in faults :
        LET started == track_message_register(groups, activity, group_admins,
                                              backup_sheet, notifications, db_lock,
                                              chat_id, chat_type)
        IN IF started.is_new
           THEN /\ suspended = {}
                /\ Store(cap, "track_message", chat_id, user_id, <<>>, started)
                /\ suspended' = suspended \cup
                                   {[chat_id |-> chat_id, user_id |-> user_id,
                                     message |-> message, is_new |-> TRUE,
                                     fault |-> fault]}
           ELSE ApplyWithin(cap, "track_message", chat_id, user_id, <<>>,
                            Under(fault,
                                  track_message(groups, activity, group_admins,
                                                backup_sheet, notifications, db_lock,
                                                chat_id, chat_type, user_id, message,
                                                now, fault)))

TrackMessage(chats, types, users, msgs, faults) ==
    TrackMessageWithin(MaxEvents, chats, types, users, msgs, faults)

\* the notification is sent (or has failed): the waiting handler goes on from
\* its status read, at the time and under the lock it finds then
TrackMessageResume(cap) ==
    \E k \in suspended :
        /\ Store(cap, "track_message", k.chat_id, k.user_id, <<>>,
                 Under(k.fault,
                       track_message_record(groups, activity, group_admins, backup_sheet,
                                            notifications, db_lock, k.is_new, k.chat_id,
                                            k.user_id, k.message, now, k.fault)))
        /\ suspended' = suspended \ {k}

Start(chats, types) ==
    \E chat_id \in chats, chat_type \in types :
        Apply("start", chat_id, NoUser, <<>>,
              start_command(groups, activity, group_admins, backup_sheet, notifications, db_lock,
                            chat_id, chat_type, now))

Leaderboard(chats, types, argss, faults) ==
    \E chat_id \in chats, chat_type \in types, args \in argss, fault \in faults :
        Apply("leaderboard", chat_id, NoUser, args,
              Under(fault, leaderboard_command(groups, activity, group_admins, backup_sheet,
                                  notifications, db_lock, chat_id, chat_type, args, now, fault)))

PeakTimes(chats, types, faults) ==
    \E chat_id \in chats, chat_type \in types, fault \in faults :
        Apply("peak_times", chat_id, NoUser, <<>>,
              Under(fault, peak_times_command(groups, activity, group_admins, backup_sheet,
                                 notifications, db_lock, chat_id, chat_type, now, fault)))

CommunityStats(chats, types, faults) ==
    \E chat_id \in chats, chat_type \in types, fault \in faults :
        Apply("community_stats", chat_id, NoUser, <<>>,
              Under(fault, community_stats_command(groups, activity, group_admins, backup_sheet,
                                      notifications, db_lock, chat_id, chat_type, now, fault)))

ExportData(chats, types, users, argss, faults) ==
    \E chat_id \in chats, chat_type \in types, user_id \in users, args \in argss,
       fault \in faults :
        Apply("export_data", chat_id, user_id, args,
              Under(fault, export_data_command(groups, activity, group_admins, backup_sheet,
                                  notifications, db_lock, chat_id, chat_type, user_id, args, now, fault)))

ApproveTrial(users, argss) ==
    \E user_id \in users, args \in argss :
        Apply("approve_trial", TargetChat(args), user_id, args,
              approve_trial_command(groups, activity, group_admins, backup_sheet,
                                    notifications, db_lock, user_id, args, now))

ExtendSubscription(users, argss) ==
    \E user_id \in users, args \in argss :
        Apply("extend_subscription", TargetChat(args), user_id, args,
              extend_subscription_command(groups, activity, group_admins, backup_sheet,
                                          notifications, db_lock, user_id, args, now))

AddGroupAdmin(users, argss) ==
    \E user_id \in users, args \in argss :
        Apply("add_group_admin", TargetChat(args), user_id, args,
              add_group_admin_command(groups, activity, group_admins, backup_sheet,
                                      notifications, db_lock, user_id, args))

RevokeAccess(users, argss) ==
    \E user_id \in users, args \in argss :
        Apply("revoke_access", TargetChat(args), user_id, args,
              revoke_access_command(groups, activity, group_admins, backup_sheet,
                                    notifications, db_lock, user_id, args))

BackupNow(users, faults) ==
    \E user_id \in users, fault \in faults :
        Apply("backup_now", NoChat, user_id, <<>>,
              Under(fault, backup_now_command(groups, activity, group_admins, backup_sheet,
                                 notifications, db_lock, user_id, now, fault)))

\* the job queue runs the daily backup, also while a handler waits at its
\* await; it is scheduled only in a deployment with the backup spreadsheet
DailyBackup(faults) ==
    \E fault \in faults :
        /\ backup_sheet.configured
        /\ Store(MaxEvents, "daily_backup_task", NoChat, NoUser, <<>>,
                 Under(fault, daily_backup_task(groups, activity, group_admins,
                                                backup_sheet, notifications, db_lock,
                                                now, fault)))
        /\ suspended' = suspended

RestoreBackup(users, faults) ==
    \E user_id \in users, fault \in faults :
        Apply("restore_backup", NoChat, user_id, <<>>,
              Under(fault, restore_backup_command(groups, activity, group_admins, backup_sheet,
                                     notifications, db_lock, user_id, fault)))

PendingGroups(users) ==
    \E user_id \in users :
        Apply("pending_groups", NoChat, user_id, <<>>,
              pending_groups_command(groups, activity, group_admins, backup_sheet,
                                     notifications, db_lock, user_id))

MyGroups(users) ==
    \E user_id \in users :
        Apply("my_groups", NoChat, user_id, <<>>,
              my_groups_command(groups, activity, group_admins, backup_sheet,
                                notifications, db_lock, user_id))

DownloadDb(users) ==
    \E user_id \in users :
        Apply("download_db", NoChat, user_id, <<>>,
              download_db_command(groups, activity, group_admins, backup_sheet,
                                  notifications, db_lock, user_id))

\* argument lists
ChatArgs(chats) == {<<IntTok(c)>> : c \in chats}
GrantArgs(chats, amounts) == {<<IntTok(c), IntTok(k)>> : c \in chats, k \in amounts}
AdminArgs(chats, users) == {<<IntTok(c), IntTok(u)>> : c \in chats, u \in users}

\* argument lists int() cannot read, or that are too short
BadChatArgs == {<<>>, <<WordTok>>}
BadPairArgs(chats) ==
    BadChatArgs \cup {<<IntTok(c), WordTok>> : c \in chats} \cup {<<WordTok, IntTok(1)>>}
\* day counts as typed after /leaderboard and /export_data
DayArgs ==
    {<<>>, <<WordTok>>, <<SupTok>>, <<IntTok(-1)>>} \cup {<<IntTok(d)>> : d \in DayCounts}

Next ==
    \/ Tick
    \/ TrackMessage(Chats, ChatTypes, Members, Messages, {NoFault})
    \/ TrackMessageResume(MaxEvents)
    \/ Start(Chats, ChatTypes)
    \/ Leaderboard(Chats, ChatTypes, {<<>>}, {NoFault})
    \/ PeakTimes(Chats, ChatTypes, {NoFault})
    \/ CommunityStats(Chats, ChatTypes, {NoFault})
    \/ ExportData(Chats, ChatTypes, Users, {<<>>}, {NoFault})
    \/ PendingGroups(Users)
    \/ ApproveTrial(Users, GrantArgs(Chats, TrialHours))
    \/ ExtendSubscription(Users, GrantArgs(Chats, SubscriptionDays))
    \/ AddGroupAdmin(Users, AdminArgs(Chats, Members))
    \/ MyGroups(Users)
    \/ RevokeAccess(Users, ChatArgs(Chats))
    \/ BackupNow(Users, {NoFault})
    \/ RestoreBackup(Users, {NoFault})
    \/ DownloadDb(Users)

\* every handler, in a deployment without the backup spreadsheet
Spec == Init /\ [][Next]_vars

NextBridge ==
    \/ Tick
    \/ TrackMessage(Chats, GroupOnly, Members, {{"text"}}, {NoFault})
    \/ TrackMessageResume(MaxEvents)
    \/ Start(Chats, GroupOnly)
    \/ Leaderboard(Chats, GroupOnly, {<<>>}, {NoFault})
    \/ PeakTimes(Chats, GroupOnly, {NoFault})
    \/ CommunityStats(Chats, GroupOnly, {NoFault})
    \/ ExportData(Chats, GroupOnly, {SUPER_ADMIN_ID}, {<<>>}, {NoFault})
    \/ PendingGroups({SUPER_ADMIN_ID})
    \/ ApproveTrial({SUPER_ADMIN_ID}, GrantArgs(Chats, BridgeTrialHours))
    \/ ExtendSubscription({SUPER_ADMIN_ID}, GrantArgs(Chats, BridgeSubscriptionDays))
    \/ AddGroupAdmin({SUPER_ADMIN_ID}, AdminArgs(Chats, Members))
    \/ MyGroups({SUPER_ADMIN_ID})
    \/ RevokeAccess({SUPER_ADMIN_ID}, ChatArgs(Chats))
    \/ BackupNow({SUPER_ADMIN_ID}, {NoFault})
    \/ DailyBackup({NoFault})
    \/ RestoreBackup({SUPER_ADMIN_ID}, {NoFault})
    \/ DownloadDb({SUPER_ADMIN_ID})

\* every handler, in a deployment with the backup spreadsheet
SpecBridge == InitBridge /\ [][NextBridge]_vars

\* every handler, in a deployment restarted on a new database
SpecRecovery == InitRecovery /\ [][NextBridge]_vars

NextAccess ==
    \/ Tick
    \/ TrackMessage(Chats, GroupOnly, Members, {{"text"}}, {NoFault})
    \/ TrackMessageResume(MaxEvents)
    \/ Start(Chats, GroupOnly)
    \/ Leaderboard(Chats, GroupOnly, {<<>>}, {NoFault})
    \/ PeakTimes(Chats, GroupOnly, {NoFault})
    \/ CommunityStats(Chats, GroupOnly, {NoFault})
    \/ ExportData(Chats, GroupOnly, Users, {<<>>}, {NoFault})
    \/ PendingGroups(Users)
    \/ ApproveTrial(Users, GrantArgs(Chats, BridgeTrialHours))
    \/ ExtendSubscription(Users, GrantArgs(Chats, BridgeSubscriptionDays))
    \/ AddGroupAdmin(Users, AdminArgs(Chats, Members))
    \/ MyGroups(Users)
    \/ RevokeAccess(Users, ChatArgs(Chats))
    \/ BackupNow(Users, {NoFault})
    \/ DailyBackup({NoFault})
    \/ RestoreBackup(Users, {NoFault})
    \/ DownloadDb(Users)

\* every handler, issued by the super admin and by another user, in a
\* deployment with the backup spreadsheet
SpecAccess == InitBridge /\ [][NextAccess]_vars

\* the tracker as constructed on a new database, serving two groups
InitAdmins ==
    /\ now = 0
    /\ groups = {}
    /\ activity = <<>>
    /\ group_admins = <<>>
    /\ backup_sheet = NoSheet
    /\ notifications = [c \in TwoChats |-> 0]
    /\ last = Idle
    /\ suspended = {}
    /\ db_lock = NoLock

NextAdmins ==
    \/ Tick
    \/ TrackMessage(TwoChats, GroupOnly, Members, {{"text"}}, {NoFault})
    \/ TrackMessageResume(MaxEvents)
    \/ ApproveTrial({SUPER_ADMIN_ID}, GrantArgs(TwoChats, BridgeTrialHours))
    \/ AddGroupAdmin(Users, AdminArgs(TwoChats, Members))
    \/ ExportData(TwoChats, GroupOnly, Users, {<<>>}, {NoFault})

\* two groups and the commands that grant and use export rights
SpecAdmins == InitAdmins /\ [][NextAdmins]_vars

\* the tracker restarted on a new database, serving two groups: the worksheet
\* holds what the earlier process backed up
InitMirror ==
    /\ now = 0
    /\ groups = {}
    /\ activity = <<>>
    /\ group_admins = <<>>
    /\ backup_sheet = Sheet(<<PriorRow>>)
    /\ notifications = [c \in TwoChats |-> 0]
    /\ last = Idle
    /\ suspended = {}
    /\ db_lock = NoLock

NextMirror ==
    \/ Tick
    \/ TrackMessage(TwoChats, GroupOnly, Members, {{"text"}}, {NoFault})
    \/ TrackMessageResume(MaxEvents)
    \/ ApproveTrial({SUPER_ADMIN_ID}, GrantArgs(TwoChats, BridgeTrialHours))
    \/ BackupNow({SUPER_ADMIN_ID}, {NoFault})
    \/ DailyBackup({NoFault})
    \/ RestoreBackup({SUPER_ADMIN_ID}, {NoFault})

\* two groups, registration and the trial grant, and the bridge
SpecMirror == InitMirror /\ [][NextMirror]_vars

\* the tracker as constructed on a new database, with the backup spreadsheet
\* not configured, new, or holding an earlier backup
InitFaults ==
    /\ now = 0
    /\ groups = {}
    /\ activity = <<>>
    /\ group_admins = <<>>
    /\ backup_sheet \in {NoSheet, Sheet(<<>>), Sheet(<<PriorRow>>)}
    /\ notifications = [c \in TwoChats |-> 0]
    /\ last = Idle
    /\ suspended = {}
    /\ db_lock = NoLock

NextFaults ==
    \/ Collect
    \/ TrackMessage(TwoChats, GroupOnly, Members, {{"text"}}, {NoFault})
    \/ TrackMessageResume(MaxEvents)
    \/ ApproveTrial({SUPER_ADMIN_ID}, GrantArgs(TwoChats, BridgeTrialHours))
    \/ AddGroupAdmin({SUPER_ADMIN_ID}, AdminArgs(Chats, Members))
    \/ BackupNow({SUPER_ADMIN_ID}, {NoFault} \cup BackupFaults)
    \/ DailyBackup({NoFault} \cup BackupFaults)
    \/ RestoreBackup({SUPER_ADMIN_ID}, {NoFault} \cup RestoreFaults)

\* two groups and the bridge, whose calls to the database and to the
\* spreadsheet may raise
SpecFaults == InitFaults /\ [][NextFaults]_vars

\* the activity rows log_activity writes for these messages
Events(chats, users, types, times) ==
    {Event(c, u, m, t) : c \in chats, u \in users, m \in types, t \in times}

\* the activity tables of up to n rows, logged in the order of their times
RECURSIVE EventTables(_, _)
EventTables(events, n) ==
    IF n = 0 THEN {<<>>}
    ELSE LET shorter == EventTables(events, n - 1)
             longest == {a \in shorter : Len(a) = n - 1}
             InOrder(a, e) == a = <<>> \/ a[Len(a)].timestamp <= e.timestamp
         IN shorter \cup
            UNION {{Append(a, e) : e \in {x \in events : InOrder(a, x)}} : a \in longest}

\* two groups subscribed at time 0, with the messages recorded since: those of
\* two users in chat -100 and the text messages of one of them in chat -200
InitStats ==
    /\ now = StatNow
    /\ groups = {Row(c, "active", NULL, Iso(HoursPerDay * DefaultSubscriptionDays))
                    : c \in TwoChats}
    /\ activity \in EventTables(Events({-100}, StatUsers, StatTypes, StatTimes)
                                  \cup Events({-200}, {8}, {"text"}, StatTimes),
                              MaxRows)
    /\ group_admins = <<>>
    /\ backup_sheet = NoSheet
    /\ notifications = [c \in TwoChats |-> 1]
    /\ last = Idle
    /\ suspended = {}
    /\ db_lock = NoLock

NextStats ==
    \/ Leaderboard(Chats, GroupOnly, {<<>>, <<IntTok(0)>>}, {NoFault})
    \/ PeakTimes(Chats, GroupOnly, {NoFault})
    \/ CommunityStats(Chats, GroupOnly, {NoFault})
    \/ ExportData(Chats, GroupOnly, {SUPER_ADMIN_ID}, {<<>>}, {NoFault})

\* the statistics commands over every small activity table
SpecStats == InitStats /\ [][NextStats]_vars

\* two subscribed groups, with the messages three users sent today
InitAverages ==
    /\ now = StatNow
    /\ groups = {Row(c, "active", NULL, Iso(HoursPerDay * DefaultSubscriptionDays))
                    : c \in TwoChats}
    /\ activity \in EventTables(Events({-100}, AverageUsers, {"text"}, {StatNow})
                                  \cup Events({-200}, {8}, {"text"}, {StatNow}),
                              MaxRows)
    /\ group_admins = <<>>
    /\ backup_sheet = NoSheet
    /\ notifications = [c \in TwoChats |-> 1]
    /\ last = Idle
    /\ suspended = {}
    /\ db_lock = NoLock

NextAverages ==
    \/ CommunityStats(TwoChats, GroupOnly, {NoFault})
    \/ PeakTimes(TwoChats, GroupOnly, {NoFault})

\* the community statistics of tables whose totals do not divide evenly
SpecAverages == InitAverages /\ [][NextAverages]_vars

\* the tracker as constructed on a new database with the backup spreadsheet,
\* started at midnight or an hour before it
InitLog ==
    /\ now \in LogStarts
    /\ groups = {}
    /\ activity = <<>>
    /\ group_admins = <<>>
    /\ backup_sheet = Sheet(<<>>)
    /\ notifications = [c \in Chats |-> 0]
    /\ last = Idle
    /\ suspended = {}
    /\ db_lock = NoLock

NextLog ==
    \/ Tick
    \/ TrackMessageWithin(MaxRows - 1, Chats, GroupOnly, Members, {{"text"}}, {NoFault})
    \/ TrackMessageResume(MaxRows - 1)
    \/ Start(Chats, GroupOnly)
    \/ ApproveTrial({SUPER_ADMIN_ID}, GrantArgs(Chats, BridgeTrialHours))
    \/ ExtendSubscription({SUPER_ADMIN_ID}, GrantArgs(Chats, BridgeSubscriptionDays))
    \/ RevokeAccess({SUPER_ADMIN_ID}, ChatArgs(Chats))
    \/ BackupNow({SUPER_ADMIN_ID}, {NoFault})
    \/ DailyBackup({NoFault})
    \/ RestoreBackup({SUPER_ADMIN_ID}, {NoFault})

\* the handlers that write, over an activity table of several rows
SpecLog == InitLog /\ [][NextLog]_vars

NextStorage ==
    \/ Tick
    \/ Collect
    \/ TrackMessage(Chats, GroupOnly, Members, {{"text"}}, {NoFault} \cup StorageFaults)
    \/ TrackMessageResume(MaxEvents)
    \/ Start(Chats, GroupOnly)
    \/ Leaderboard(Chats, GroupOnly, {<<>>}, {NoFault} \cup ReadFaults)
    \/ PeakTimes(Chats, GroupOnly, {NoFault} \cup ReadFaults)
    \/ CommunityStats(Chats, GroupOnly, {NoFault} \cup ReadFaults)
    \/ ExportData(Chats, GroupOnly, {SUPER_ADMIN_ID}, {<<>>}, {NoFault} \cup ReadFaults)
    \/ ApproveTrial({SUPER_ADMIN_ID}, GrantArgs(Chats, TrialHours))
    \/ ExtendSubscription({SUPER_ADMIN_ID}, GrantArgs(Chats, SubscriptionDays))
    \/ RevokeAccess({SUPER_ADMIN_ID}, ChatArgs(Chats))

\* the handlers of a group, over a database whose calls may raise
SpecStorage == Init /\ [][NextStorage]_vars

NextPrivate ==
    \/ Tick
    \/ TrackMessage(Chats, {"private"}, Members, Messages, {NoFault})
    \/ Start(Chats, GroupOnly)
    \/ ApproveTrial({SUPER_ADMIN_ID}, GrantArgs(Chats, TrialHours))
    \/ ExtendSubscription({SUPER_ADMIN_ID}, GrantArgs(Chats, SubscriptionDays))
    \/ RevokeAccess({SUPER_ADMIN_ID}, ChatArgs(Chats))
    \/ BackupNow({SUPER_ADMIN_ID}, {NoFault})
    \/ DailyBackup({NoFault})
    \/ RestoreBackup({SUPER_ADMIN_ID}, {NoFault})

\* a deployment restarted on a new database, where every message comes from
\* a private chat
SpecPrivate == InitRecovery /\ [][NextPrivate]_vars

NextAwaits ==
    \/ Tick
    \/ TrackMessage(Chats, GroupOnly, Members, {{"text"}}, {NoFault})
    \/ TrackMessageResume(MaxEvents)
    \/ Start(Chats, GroupOnly)
    \/ ApproveTrial({SUPER_ADMIN_ID}, GrantArgs(Chats, BridgeTrialHours))
    \/ ExtendSubscription({SUPER_ADMIN_ID}, GrantArgs(Chats, BridgeSubscriptionDays))
    \/ RevokeAccess({SUPER_ADMIN_ID}, ChatArgs(Chats))
    \/ BackupNow({SUPER_ADMIN_ID}, {NoFault})
    \/ DailyBackup({NoFault})
    \/ RestoreBackup({SUPER_ADMIN_ID}, {NoFault})

\* the handlers that write the row of a group, around the await of the
\* handler that registers it
SpecAwaits == InitBridge /\ [][NextAwaits]_vars

NextCommands ==
    \/ Tick
    \/ TrackMessage(Chats, GroupOnly, Members, {{"text"}}, {NoFault})
    \/ TrackMessageResume(MaxEvents)
    \/ Start(Chats, GroupOnly)
    \/ Leaderboard(Chats, ChatTypes, DayArgs, {NoFault})
    \/ PeakTimes(Chats, GroupOnly, {NoFault})
    \/ CommunityStats(Chats, GroupOnly, {NoFault})
    \/ ExportData(Chats, GroupOnly, Users, DayArgs, {NoFault})
    \/ PendingGroups({SUPER_ADMIN_ID})
    \/ ApproveTrial({SUPER_ADMIN_ID},
                    GrantArgs(Chats, BridgeTrialHours) \cup BadPairArgs(Chats))
    \/ ExtendSubscription({SUPER_ADMIN_ID},
                          GrantArgs(Chats, BridgeSubscriptionDays) \cup BadPairArgs(Chats))
    \/ AddGroupAdmin({SUPER_ADMIN_ID}, AdminArgs(Chats, Members) \cup BadPairArgs(Chats))
    \/ MyGroups({SUPER_ADMIN_ID})
    \/ RevokeAccess({SUPER_ADMIN_ID}, ChatArgs(Chats) \cup BadChatArgs)
    \/ BackupNow({SUPER_ADMIN_ID}, {NoFault})
    \/ RestoreBackup({SUPER_ADMIN_ID}, {NoFault})
    \/ DownloadDb({SUPER_ADMIN_ID})

\* every handler, with the arguments a user may type after a command
SpecCommands == Init /\ [][NextCommands]_vars

----------------------------------------------------------------------------
(* Properties *)

\* the step is a run of handler op (time stands still while a handler runs)
Ran(op) == now' = now /\ last'.op = op

\* the handler of the step called get_group_status
ReadStatus == now' = now /\ last'.status # NotRead

\* the step is a group message arriving: its handler got past the check of
\* the chat and ran up to its await or to its end
Arrived ==
    /\ Ran("track_message")
    /\ suspended \subseteq suspended'
    /\ last'.is_new \/ last'.status # NotRead

\* the step is a handler of a message going on after its await
Resumed == Ran("track_message") /\ suspended' # suspended /\ suspended' \subseteq suspended

\* the step is a backup that reported success, of the command or of the job
BackedUp ==
    \/ Ran("backup_now") /\ last'.reply = "Backup completed successfully."
    \/ Ran("daily_backup_task") /\ last'.reply = "Daily backup completed successfully."

Access == {"trial", "active"}

\* the deadline that goes with the row's status has passed at time t
DeadlinePassed(r, t) ==
    \/ r.status = "trial" /\ Truthy(r.trial_end_date) /\ t > r.trial_end_date.t
    \/ r.status = "active" /\ Truthy(r.subscription_end_date)
                           /\ t > r.subscription_end_date.t

\* table g with row r marked expired and nothing else changed
Expire(g, r) == (g \ {r}) \cup {[r EXCEPT !.status = "expired"]}

\* C1: register answers created=true only when the chat has no Group row, and
\* then inserts the one pending row and the handler notifies the super admin;
\* when a row exists it answers created=false and leaves the table as it is
\* (the handler changes the row only as the status read does, at once or, for
\* the handler that registered, after its await); no chat ever has two rows,
\* and no chat is notified twice.
C1_RegisterOnce ==
    [][\A c \in Chats :
        /\ Cardinality(RowsOf(groups', c)) <= 1
        /\ notifications'[c] <= 1
        /\ notifications'[c] >= notifications[c]
        /\ (notifications'[c] # notifications[c]) =>
              Arrived /\ last'.chat_id = c /\ last'.is_new /\ ~HasRow(groups, c)
        /\ (Arrived /\ last'.chat_id = c) =>
              IF HasRow(groups, c)
              THEN /\ ~last'.is_new
                   /\ register_group(groups, db_lock, c) = [groups |-> groups, ret |-> FALSE]
                   /\ groups' = IF DeadlinePassed(fetchone(groups, c), now)
                                 THEN Expire(groups, fetchone(groups, c))
                                 ELSE groups
                   /\ notifications' = notifications
              ELSE /\ last'.is_new
                   /\ last'.status = NotRead
                   /\ groups' = groups \cup {Row(c, "pending", NULL, NULL)}
                   /\ notifications'[c] = notifications[c] + 1
        /\ (Resumed /\ last'.chat_id = c) =>
              /\ HasRow(groups, c)
              /\ groups' = IF DeadlinePassed(fetchone(groups, c), now)
                            THEN Expire(groups, fetchone(groups, c))
                            ELSE groups
              /\ notifications' = notifications
      ]_vars

\* a second message of a registered, notified chat has been handled
C1_Witness ==
    /\ last.op = "track_message"
    /\ last.status # NotRead
    /\ ~last.is_new
    /\ HasRow(groups, last.chat_id)
    /\ notifications[last.chat_id] = 1

\* C2: a status read of a trial group past its trial_end, or of an active group
\* past its subscription_end, returns expired and stores expired, changing
\* nothing else; every other read (pending, expired, deadline not strictly
\* passed, now = deadline included) returns the stored status and leaves the
\* table as it is.  So a trial approved for 0 hours reads expired after any
\* positive time, and reads expired again on the next read.
C2_LazyExpiry ==
    [][\A c \in Chats :
        (ReadStatus /\ last'.chat_id = c /\ HasRow(groups, c)) =>
            LET r == fetchone(groups, c)
            IN IF DeadlinePassed(r, now)
               THEN last'.status = "expired" /\ groups' = Expire(groups, r)
               ELSE last'.status = r.status /\ groups' = groups
      ]_vars

\* a trial approved for 0 hours at time 0 has been read as expired at time 1
C2_Witness ==
    /\ last.op = "start"
    /\ last.status = "expired"
    /\ now = 1
    /\ groups = {Row(last.chat_id, "expired", Iso(0), NULL)}

\* C3: the activity table grows only by track_message appending one event of
\* the message's chat after its status read returned trial or active; a group
\* message of a chat that has no row, is pending, is expired or is past the
\* deadline of its status appends nothing, and in the last case the stored
\* status is expired when the handler is done.
C3_GatedRecording ==
    [][/\ (activity' # activity) =>
            /\ Ran("track_message")
            /\ last'.status \in Access
            /\ Len(activity') = Len(activity) + 1
            /\ SubSeq(activity', 1, Len(activity)) = activity
            /\ activity'[Len(activity')].chat_id = last'.chat_id
       /\ \A c \in Chats :
            (/\ Ran("track_message") /\ last'.chat_id = c /\ last'.status # NotRead
             /\ \/ ~HasRow(groups, c)
                \/ HasRow(groups, c) /\ fetchone(groups, c).status \notin Access
                \/ HasRow(groups, c) /\ DeadlinePassed(fetchone(groups, c), now))
            => /\ activity' = activity
               /\ ~last'.logged
               /\ (HasRow(groups, c) /\ DeadlinePassed(fetchone(groups, c), now)) =>
                      fetchone(groups', c).status = "expired"
      ]_vars

\* a message was recorded during the trial, and a later message, arriving past
\* trial_end, was rejected and left the group expired
C3_Witness ==
    /\ last.op = "track_message"
    /\ last.status = "expired"
    /\ ~last.logged
    /\ now = 1
    /\ groups = {Row(last.chat_id, "expired", Iso(0), NULL)}
    /\ Len(activity) = 1

\* table g with row r replaced by row r2
Replace(g, r, r2) == (g \ {r}) \cup {r2}

\* the step moved the row of chat c from one status to another
Moved(c, from, to) ==
    /\ HasRow(groups, c) /\ fetchone(groups, c).status = from
    /\ HasRow(groups', c) /\ fetchone(groups', c).status = to

\* the step is a grant to chat c that was carried out
Granted(op, c) ==
    /\ Ran(op) /\ last'.chat_id = c
    /\ last'.reply \in {"Trial approved", "Subscription extended"}

\* the step is a restore that wrote a worksheet row of chat c with this status
Restored(c, status) ==
    /\ Ran("restore_backup")
    /\ \E k \in 1..Len(backup_sheet.rows) :
          backup_sheet.rows[k].chat_id = c /\ backup_sheet.rows[k].status = status

\* C4 as claimed: an expired group becomes trial or active only by approve_trial
\* (to trial) or extend_subscription (to active) issued for its chat.
C4_ExpiredUntilGrant ==
    [][\A c \in Chats : \A to \in Access :
        Moved(c, "expired", to) =>
            \/ Granted("approve_trial", c) /\ to = "trial"
            \/ Granted("extend_subscription", c) /\ to = "active"
      ]_vars

\* C4, amended: an expired group leaves expired only by approve_trial (to
\* trial) or extend_subscription (to active) issued for its chat, or by a
\* restore that overwrites its row with the status of the worksheet row.
C4_ExpiredUntilGrantOrRestore ==
    [][\A c \in Chats : \A to \in Statuses \ {"expired"} :
        Moved(c, "expired", to) =>
            \/ Granted("approve_trial", c) /\ to = "trial"
            \/ Granted("extend_subscription", c) /\ to = "active"
            \/ Restored(c, to)
      ]_vars

\* a group backed up as trial and expired since has been restored, and is trial
\* again with the deadline of the backup
C4_Witness ==
    /\ last.op = "restore_backup"
    /\ last.reply = "Restored groups from backup"
    /\ now = 1
    /\ backup_sheet.rows = <<[chat_id |-> -100, status |-> "trial",
                              trial_end_date |-> Iso(1), subscription_end_date |-> EMPTY,
                              last_backup |-> Iso(1)]>>
    /\ groups = {Row(-100, "trial", Iso(1), EMPTY)}

\* C5: approve_trial of a registered group, whatever its status, stores status
\* trial and trial_end = now + hours and nothing else; extend_subscription
\* stores status active and subscription_end = now + days and nothing else.  A
\* re-issued grant therefore replaces the deadline it set before.
C5_Grants ==
    [][\A c \in Chats :
        HasRow(groups, c) =>
            LET r == fetchone(groups, c)
            IN /\ Granted("approve_trial", c) =>
                    groups' = Replace(groups, r,
                                      [r EXCEPT !.status = "trial",
                                                !.trial_end_date = Iso(now + last'.arg)])
               /\ Granted("extend_subscription", c) =>
                    groups' = Replace(groups, r,
                                      [r EXCEPT !.status = "active",
                                                !.subscription_end_date =
                                                    Iso(now + HoursPerDay * last'.arg)])
      ]_vars

\* at time 1 a group that holds a subscription granted at time 0 has been
\* approved for a trial again
C5_Witness ==
    /\ last.op = "approve_trial"
    /\ last.reply = "Trial approved"
    /\ now = 1
    /\ groups = {Row(last.chat_id, "trial", Iso(1 + last.arg), Iso(HoursPerDay))}

\* the operation of the status table that the step is, if any
TableOp ==
    IF Ran("approve_trial") THEN "approve_trial"
    ELSE IF Ran("extend_subscription") THEN "extend_subscription"
    ELSE IF Ran("revoke_access") THEN "revoke"
    ELSE IF ReadStatus THEN "evaluate"
    ELSE "other"

\* the transitions of the status table
TableTransition(from, op, to) ==
    \/ from = "pending" /\ op = "approve_trial" /\ to = "trial"
    \/ from = "trial" /\ op = "approve_trial" /\ to = "trial"
    \/ from = "trial" /\ op = "extend_subscription" /\ to = "active"
    \/ from = "trial" /\ op = "evaluate" /\ to = "expired"
    \/ from = "active" /\ op = "evaluate" /\ to = "expired"
    \/ from = "active" /\ op = "extend_subscription" /\ to = "active"
    \/ op = "revoke" /\ to = "expired"
    \/ from = "expired" /\ op = "approve_trial" /\ to = "trial"
    \/ from = "expired" /\ op = "extend_subscription" /\ to = "active"

\* C6 as claimed: every change of a stored status made by approve_trial,
\* extend_subscription, revoke or a status read is a transition of the table.
C6_TableOnly ==
    [][\A c \in Chats : \A from, to \in Statuses :
        (from # to /\ Moved(c, from, to) /\ TableOp # "other") =>
            TableTransition(from, TableOp, to)
      ]_vars

\* C6, amended: every change of a stored status made by approve_trial,
\* extend_subscription, revoke or a status read is a transition of the table,
\* or extend_subscription moving a pending group to active, or approve_trial
\* moving an active group to trial; a status read only moves trial or active
\* to expired.
C6_TableAndDirectGrants ==
    [][\A c \in Chats : \A from, to \in Statuses :
        (from # to /\ Moved(c, from, to) /\ TableOp # "other") =>
            \/ TableTransition(from, TableOp, to)
            \/ from = "pending" /\ TableOp = "extend_subscription" /\ to = "active"
            \/ from = "active" /\ TableOp = "approve_trial" /\ to = "trial"
      ]_vars

\* a group that never had a trial has been made active by extend_subscription
C6_Witness ==
    /\ last.op = "extend_subscription"
    /\ last.reply = "Subscription extended"
    /\ HasRow(groups, last.chat_id)
    /\ fetchone(groups, last.chat_id).status = "active"
    /\ fetchone(groups, last.chat_id).trial_end_date = NULL

\* what the step does to an expired group, whatever its deadlines: revoke has
\* stored expired and kept both deadlines, a status read returns expired and
\* records nothing
RevokeHolds(c) ==
    /\ (Ran("revoke_access") /\ last'.chat_id = c /\ last'.reply = "Access revoked"
        /\ HasRow(groups, c)) =>
            groups' = Expire(groups, fetchone(groups, c))
    /\ (ReadStatus /\ last'.chat_id = c /\ HasRow(groups, c)
        /\ fetchone(groups, c).status = "expired") =>
            /\ last'.status = "expired"
            /\ ~last'.logged
            /\ last'.query = NoQuery
            /\ activity' = activity
            /\ groups' = groups

\* C7 as claimed: revoke stores expired from any status and keeps both
\* deadlines; from then on every status read returns expired and no message is
\* recorded, whatever the deadlines, and the group stays expired until
\* approve_trial or extend_subscription is issued for its chat.
C7_RevokedUntilGrant ==
    [][\A c \in Chats :
        /\ RevokeHolds(c)
        /\ \A to \in Statuses \ {"expired"} :
              Moved(c, "expired", to) =>
                  Granted("approve_trial", c) \/ Granted("extend_subscription", c)
      ]_vars

\* C7, amended: revoke stores expired from any status and keeps both deadlines;
\* from then on every status read returns expired and no message is recorded,
\* whatever the deadlines, and the group stays expired until approve_trial or
\* extend_subscription is issued for its chat or a restore overwrites its row.
C7_RevokedUntilGrantOrRestore ==
    [][\A c \in Chats :
        /\ RevokeHolds(c)
        /\ \A to \in Statuses \ {"expired"} :
              Moved(c, "expired", to) =>
                  \/ Granted("approve_trial", c)
                  \/ Granted("extend_subscription", c)
                  \/ Restored(c, to)
      ]_vars

\* a trial that runs until time 1 was revoked, and a message arriving at time 0
\* has been rejected
C7_Witness ==
    /\ last.op = "track_message"
    /\ last.status = "expired"
    /\ ~last.logged
    /\ now = 0
    /\ groups = {Row(last.chat_id, "expired", Iso(1), NULL)}
    /\ activity = <<>>

\* the step inserted this row for chat c, which had none
Created(c, row) == ~HasRow(groups, c) /\ groups' = groups \cup {row}

\* C8 as claimed: a Group row appears only by register in track_message, for a
\* chat that had none, as the pending row without deadlines; a row that exists
\* is never removed, nor is a second one added for its chat.
C8_CreatedByRegister ==
    [][\A c \in Chats :
        /\ HasRow(groups, c) => Cardinality(RowsOf(groups', c)) = 1
        /\ (~HasRow(groups, c) /\ HasRow(groups', c)) =>
              /\ Ran("track_message") /\ last'.chat_id = c /\ last'.is_new
              /\ Created(c, Row(c, "pending", NULL, NULL))
      ]_vars

\* C8, amended: a Group row appears only by register in track_message, as the
\* pending row without deadlines, or by restore, as the copy of a worksheet
\* row of a chat that had no row; a row that exists is never removed, nor is a
\* second one added for its chat.
C8_CreatedByRegisterOrRestore ==
    [][\A c \in Chats :
        /\ HasRow(groups, c) => Cardinality(RowsOf(groups', c)) = 1
        /\ (~HasRow(groups, c) /\ HasRow(groups', c)) =>
              \/ /\ Ran("track_message") /\ last'.chat_id = c /\ last'.is_new
                 /\ Created(c, Row(c, "pending", NULL, NULL))
              \/ /\ Ran("restore_backup")
                 /\ \E k \in 1..Len(backup_sheet.rows) :
                       LET record == backup_sheet.rows[k]
                       IN /\ record.chat_id = c
                          /\ Created(c, Row(c, record.status, record.trial_end_date,
                                            record.subscription_end_date))
      ]_vars

\* restore has created the row of a chat no message was ever seen from
C8_Witness ==
    /\ last.op = "restore_backup"
    /\ last.reply = "Restored groups from backup"
    /\ notifications[-100] = 0
    /\ groups = {Row(-100, "trial", Iso(0), EMPTY)}

StatsOps == {"leaderboard", "peak_times", "community_stats", "export_data"}

StatsReplies ==
    {"Top Contributors", "Peak Activity Hours", "Community Statistics", "Activity data"}

\* what a status read gives for chat c in table g at time t
Evaluate(g, c, t) ==
    IF ~HasRow(g, c) THEN None
    ELSE IF DeadlinePassed(fetchone(g, c), t) THEN "expired"
    ELSE fetchone(g, c).status

\* C9: leaderboard, peak_times, community_stats and export_data run their
\* aggregation query and answer with statistics only when the status read at
\* the time of the command gives trial or active; for a pending, expired or
\* unregistered chat they run no query and answer with no statistics.
C9_GatedStatistics ==
    [][\A op \in StatsOps :
        Ran(op) =>
            LET c == last'.chat_id
                open == Evaluate(groups, c, now) \in Access
            IN /\ (last'.query # NoQuery \/ last'.reply \in StatsReplies) =>
                      open /\ last'.status = Evaluate(groups, c, now)
               /\ ~open => /\ last'.query = NoQuery
                           /\ last'.reply \notin StatsReplies \cup {MsgNoData}
               /\ activity' = activity
      ]_vars

\* a group with a recorded message is expired, and leaderboard has answered
\* without a query
C9_Witness ==
    /\ last.op = "leaderboard"
    /\ last.status = "expired"
    /\ last.query = NoQuery
    /\ last.reply = MsgNotAuthorized
    /\ Len(activity) = 1
    /\ activity[1].chat_id = last.chat_id

GatedOps == {"start"} \cup StatsOps

\* the reply command op gives, issued by the super admin in group c, when the
\* stored status of c is status
ReasonFor(op, c, status) ==
    LET g == {Row(c, status, NULL, NULL)}
        o == CASE op = "start" ->
                    start_command(g, activity, group_admins, backup_sheet,
                                  notifications, db_lock, c, "group", now)
               [] op = "leaderboard" ->
                    leaderboard_command(g, activity, group_admins, backup_sheet,
                                        notifications, db_lock, c, "group", <<>>, now, NoFault)
               [] op = "peak_times" ->
                    peak_times_command(g, activity, group_admins, backup_sheet,
                                       notifications, db_lock, c, "group", now, NoFault)
               [] op = "community_stats" ->
                    community_stats_command(g, activity, group_admins, backup_sheet,
                                            notifications, db_lock, c, "group", now, NoFault)
               [] op = "export_data" ->
                    export_data_command(g, activity, group_admins, backup_sheet,
                                        notifications, db_lock, c, "group", SUPER_ADMIN_ID,
                                        <<>>, now, NoFault)
    IN o.reply

\* C10 as claimed: a gated command (start, leaderboard, peak_times,
\* community_stats, export_data) blocked in a pending group gives a reason that
\* differs from the one it gives in an expired group.
C10_DistinctReasons ==
    \A op \in GatedOps :
        (last.op = op /\ last.status = "pending") =>
            last.reply # ReasonFor(op, last.chat_id, "expired")

SuperOps ==
    {"pending_groups", "approve_trial", "extend_subscription", "add_group_admin",
     "my_groups", "revoke_access", "backup_now", "restore_backup", "download_db"}

\* C11: a super-admin-only command issued by another user leaves the Group
\* table, the GroupAdmin relation, the activity events and the worksheet as
\* they are and raises no exception; export_data issued by a user who is
\* neither the super admin nor an admin of the chat returns no data.
C11_SuperAdminOnly ==
    [][/\ \A op \in SuperOps :
            (Ran(op) /\ last'.user_id # SUPER_ADMIN_ID) =>
                /\ UNCHANGED <<groups, group_admins, activity, backup_sheet>>
                /\ last'.reply \notin Exceptions
       /\ (/\ Ran("export_data")
           /\ last'.user_id # SUPER_ADMIN_ID
           /\ AdminRows(group_admins, last'.chat_id, last'.user_id) = {}) =>
                /\ last'.query = NoQuery
                /\ last'.reply \notin StatsReplies \cup Exceptions
                /\ UNCHANGED <<groups, group_admins, activity, backup_sheet>>
      ]_vars

\* a user who is not the super admin has issued restore_backup while the
\* worksheet held another status for the group than the table
C11_Witness ==
    /\ last.op = "restore_backup"
    /\ last.user_id \in Members
    /\ backup_sheet.rows # <<>>
    /\ \E r \in groups : /\ r.chat_id = backup_sheet.rows[1].chat_id
                         /\ r.status # backup_sheet.rows[1].status

\* the usage hints and the answers to an argument int() cannot read
Hints ==
    {"Usage: /approve_trial <chat_id> [hours]", "Invalid chat ID or hours value.",
     "Usage: /extend_subscription <chat_id> [days]", "Invalid chat ID or days value.",
     "Usage: /add_group_admin <chat_id> <user_id>", "Invalid chat ID or user ID.",
     "Usage: /revoke_access <chat_id>", "Invalid chat ID."}

NotInteger(tok) == tok.kind # "int"

\* a numeric argument of command op is present and is not the text of an integer
Malformed(op, args) ==
    CASE op \in {"approve_trial", "extend_subscription", "add_group_admin"} ->
            \E k \in 1..Min(Len(args), 2) : NotInteger(args[k])
      [] op = "revoke_access" -> args # <<>> /\ NotInteger(args[1])
      [] op \in {"leaderboard", "export_data"} -> args # <<>> /\ NotInteger(args[1])
      [] OTHER -> FALSE

\* the command got as far as reading its arguments: its caller may use it,
\* and for a statistics command the group has access
ReadsArgs(op) ==
    IF op \in {"leaderboard", "export_data"}
    THEN last'.status \in Access
    ELSE last'.user_id = SUPER_ADMIN_ID

\* C12 as claimed: approve_trial, extend_subscription, add_group_admin,
\* revoke_access, leaderboard and export_data, given a numeric argument that
\* is not a number, answer with a usage hint and change neither the Group
\* table nor the GroupAdmin relation.
C12_MalformedRejected ==
    [][\A op \in {"approve_trial", "extend_subscription", "add_group_admin",
                  "revoke_access", "leaderboard", "export_data"} :
            (Ran(op) /\ ReadsArgs(op) /\ Malformed(op, last'.args)) =>
                /\ last'.reply \in Hints
                /\ UNCHANGED <<groups, group_admins>>
      ]_vars

AdminPairs(ga) == {<<ga[i].chat_id, ga[i].user_id>> : i \in 1..Len(ga)}

\* C13: a user has export rights in a chat exactly when the user is the super
\* admin or add_admin was performed for that chat and that user: the relation
\* starts empty, only a performed add_admin(chat, user) changes it, by adding
\* that pair, a pair is never stored twice, and export_data turns away exactly
\* the callers who are neither the super admin nor paired with its chat.
C13_AdminScope ==
    [][/\ IF Ran("add_group_admin") /\ last'.reply = "Added admin"
          THEN AdminPairs(group_admins') =
                   AdminPairs(group_admins)
                       \cup {<<last'.args[1].v, last'.args[2].v>>}
          ELSE group_admins' = group_admins
       /\ Len(group_admins') = Cardinality(AdminPairs(group_admins'))
       /\ Ran("export_data") =>
              (last'.reply = MsgAdminsOnly <=>
                  ~ \/ last'.user_id = SUPER_ADMIN_ID
                    \/ <<last'.chat_id, last'.user_id>> \in AdminPairs(group_admins))
      ]_vars

\* user 7, admin of chat -100 only, has been turned away by export_data in
\* chat -200, whose trial is running
C13_Witness ==
    /\ last.op = "export_data"
    /\ last.chat_id = -200
    /\ last.user_id = 7
    /\ last.reply = MsgAdminsOnly
    /\ AdminPairs(group_admins) = {<<-100, 7>>}
    /\ \E r \in groups : r.chat_id = -200 /\ r.status = "trial" /\ ~DeadlinePassed(r, now)

\* a worksheet cell shows a stored column value: a NULL column is a blank cell
Shows(cell, column) == IF column = NULL THEN cell = EMPTY ELSE cell = column

\* worksheet row record is the copy of Group row r made at time t
CopyOf(record, r, t) ==
    /\ record.chat_id = r.chat_id
    /\ record.status = r.status
    /\ Shows(record.trial_end_date, r.trial_end_date)
    /\ Shows(record.subscription_end_date, r.subscription_end_date)
    /\ record.last_backup = Iso(t)

\* C14: after a backup that reports success the worksheet holds exactly one
\* row per Group row, with that row's chat_id, status, trial_end and
\* subscription_end and the time of the backup, and nothing an earlier backup
\* wrote; a backup never changes the Group table.
C14_BackupMirrors ==
    [][(Ran("backup_now") \/ Ran("daily_backup_task")) =>
          /\ groups' = groups
          /\ BackedUp =>
                LET records == backup_sheet'.rows
                IN /\ Len(records) = Cardinality(groups)
                   /\ \A r \in groups :
                         \E k \in 1..Len(records) : CopyOf(records[k], r, now)
      ]_vars

\* the database was lost and a group has registered anew; the backup taken
\* then has replaced the row the worksheet held for it
C14_Witness ==
    /\ last.op = "backup_now"
    /\ last.reply = "Backup completed successfully."
    /\ now = 1
    /\ groups = {Row(-100, "pending", NULL, NULL)}
    /\ backup_sheet.rows =
           <<[chat_id |-> -100, status |-> "pending", trial_end_date |-> EMPTY,
              subscription_end_date |-> EMPTY, last_backup |-> Iso(1)]>>

\* C15: after a restore that reports success every chat_id of the worksheet
\* has a Group row with the worksheet row's status, trial_end and
\* subscription_end, whatever was stored for it before, there is one Group row
\* per chat_id, and the Group rows of the chats the worksheet does not list
\* are as they were.
C15_RestoreOverwrites ==
    [][(Ran("restore_backup") /\ last'.reply = "Restored groups from backup") =>
          LET records == backup_sheet.rows
              listed == {records[k].chat_id : k \in 1..Len(records)}
          IN /\ \A k \in 1..Len(records) :
                    Row(records[k].chat_id, records[k].status,
                        records[k].trial_end_date,
                        records[k].subscription_end_date) \in groups'
             /\ \A r \in groups' : Cardinality(RowsOf(groups', r.chat_id)) = 1
             /\ {r \in groups' : r.chat_id \notin listed}
                    = {r \in groups : r.chat_id \notin listed}
      ]_vars

\* chat -100 had registered anew and chat -200 is pending; the restore has
\* put the backed-up trial of chat -100 in place of its row and left -200
C15_Witness ==
    /\ last.op = "restore_backup"
    /\ last.reply = "Restored groups from backup"
    /\ notifications[-100] = 1
    /\ backup_sheet.rows = <<PriorRow>>
    /\ groups = {Row(-100, "trial", Iso(0), EMPTY), Row(-200, "pending", NULL, NULL)}

BridgeFailures ==
    {"Backup failed. Check logs.", "Backup sheet not configured",
     "No backup data found", "Restore failed"}

\* C16: when backup or restore reports failure (no spreadsheet configured, no
\* data rows in the worksheet, or a call of the bridge raised part-way) the
\* Group table, the GroupAdmin relation and the activity events are as before
\* the call, so a failed restore has applied none of the worksheet rows, and
\* the handler answers instead of raising.
C16_FailureLeavesLocalState ==
    [][/\ \A op \in {"backup_now", "restore_backup"} :
          Ran(op) =>
              /\ last'.reply \notin Exceptions
              /\ last'.reply \in BridgeFailures =>
                    UNCHANGED <<groups, group_admins, activity>>
       /\ Ran("daily_backup_task") =>
              /\ last'.reply \notin Exceptions
              /\ UNCHANGED <<groups, group_admins, activity>>
      ]_vars

\* the worksheet lists two groups and the table holds another status for the
\* first; the INSERT for the second row has raised and the restore has failed
C16_Witness ==
    /\ last.op = "restore_backup"
    /\ last.reply = "Restore failed"
    /\ last.arg = 2
    /\ Len(backup_sheet.rows) = 2
    /\ \E r \in groups : /\ r.chat_id = backup_sheet.rows[1].chat_id
                         /\ r.status # backup_sheet.rows[1].status
    /\ group_admins # <<>>

\* the command was given a non-negative integer day count
DaysTyped(args) == args # <<>> /\ args[1].kind = "int" /\ args[1].v >= 0

Clamp(days, bound) == IF days > bound THEN bound ELSE days

\* C17: given a non-negative integer day count, leaderboard queries the last
\* min(days, 30) days and export_data the last min(days, 90) days; peak_times
\* always queries 7 days; a count above the bound is clamped and the command
\* answers as usual.
C17_ClampedWindows ==
    [][/\ (Ran("leaderboard") /\ last'.status \in Access /\ DaysTyped(last'.args)) =>
              /\ last'.query = "get_top_contributors"
              /\ last'.arg = Clamp(last'.args[1].v, 30)
              /\ last'.reply \in {"Top Contributors", MsgNoData}
       /\ (Ran("export_data") /\ last'.status \in Access /\ DaysTyped(last'.args)) =>
              /\ last'.query = "export_to_csv"
              /\ last'.arg = Clamp(last'.args[1].v, 90)
              /\ last'.reply = "Activity data"
       /\ (Ran("peak_times") /\ last'.status \in Access) =>
              /\ last'.query = "get_peak_hours"
              /\ last'.arg = 7
      ]_vars

\* /leaderboard 31 has been answered with the contributors of 30 days
C17_Witness ==
    /\ last.op = "leaderboard"
    /\ last.args = <<IntTok(31)>>
    /\ last.arg = 30
    /\ last.reply = "Top Contributors"

\* the number of events of user u in chat c, of the last days days at time t
EventsOf(c, u, days, t) ==
    Cardinality({i \in 1..Len(activity) :
                    /\ activity[i].chat_id = c
                    /\ activity[i].user_id = u
                    /\ activity[i].timestamp \div 24 >= (t - 24 * days) \div 24})

\* C18: top_contributors(chat_id, days, limit) returns at most limit entries,
\* at most one per user, each with the number of that user's events in that
\* chat within the window, in non-increasing order of count, and no user left
\* out has more events than a user returned; 3 text and 1 photo events of
\* user 7 in chat -100 give the single entry (7, 4).
C18_TopContributors ==
    \A c \in TwoChats, days \in 0..1, limit \in {0, 1, 10} :
        LET res == get_top_contributors(activity, db_lock, c, days, limit, now)
            listed == {res[k].key : k \in 1..Len(res)}
        IN /\ Len(res) <= limit
           /\ Cardinality(listed) = Len(res)
           /\ \A k \in 1..Len(res) :
                 /\ res[k].count = EventsOf(c, res[k].key, days, now)
                 /\ res[k].count > 0
           /\ \A k \in 1..(Len(res) - 1) : res[k].count >= res[k + 1].count
           /\ \A u \in StatUsers \ listed :
                 /\ \A k \in 1..Len(res) : EventsOf(c, u, days, now) <= res[k].count
                 /\ EventsOf(c, u, days, now) > 0 => Len(res) = limit

\* 3 text events and 1 photo event of user 7 in chat -100, one of them of the
\* day before, and the leaderboard of chat -100 has answered (7, 4)
C18_Witness ==
    /\ last.op = "leaderboard"
    /\ last.chat_id = -100
    /\ last.result = <<[key |-> 7, count |-> 4]>>
    /\ Len(activity) = 4
    /\ Cardinality({i \in 1..4 : activity[i].message_type = "text"}) = 3
    /\ Cardinality({i \in 1..4 : activity[i].message_type = "photo"}) = 1
    /\ activity[1].timestamp < activity[4].timestamp

\* the events recorded for chat c
ChatEvents(c) == {i \in 1..Len(activity) : activity[i].chat_id = c}

\* the fields of the statistics are all zero
AllZero(s) ==
    /\ s.total_messages = 0
    /\ s.unique_users = 0
    /\ s.messages_today = 0
    /\ s.active_today = 0
    /\ s.messages_week = 0
    /\ s.avg_per_user_tenths = 0

\* C19 as stated: overall_stats of a chat without events is all zero, whatever
\* the other chats hold, and with events avg_per_user is total_messages
\* divided by unique_users.
C19_AverageExact ==
    \A c \in TwoChats :
        LET s == get_overall_stats(activity, db_lock, c, now)
        IN IF ChatEvents(c) = {}
           THEN AllZero(s)
           ELSE s.avg_per_user_tenths * s.unique_users = 10 * s.total_messages

\* C19 amended: overall_stats of a chat without events is all zero, whatever
\* the other chats hold, and with events total_messages and unique_users count
\* the chat's events and their users and avg_per_user is their quotient
\* rounded to one decimal, so within half a tenth of it.
C19_AverageRounded ==
    \A c \in TwoChats :
        LET s == get_overall_stats(activity, db_lock, c, now)
            diff == 10 * s.total_messages - s.avg_per_user_tenths * s.unique_users
        IN IF ChatEvents(c) = {}
           THEN AllZero(s)
           ELSE /\ s.total_messages = Cardinality(ChatEvents(c))
                /\ s.unique_users =
                       Cardinality({activity[i].user_id : i \in ChatEvents(c)})
                /\ 2 * diff <= s.unique_users
                /\ -2 * diff <= s.unique_users

\* chat -200 has no events, chat -100 has four of three users, and the
\* community statistics of chat -200 were answered with zeros
C19_Witness ==
    /\ last.op = "community_stats"
    /\ last.chat_id = -200
    /\ last.query = "get_overall_stats"
    /\ AllZero(last.result)
    /\ ChatEvents(-200) = {}
    /\ get_overall_stats(activity, db_lock, -100, now).total_messages = 4
    /\ get_overall_stats(activity, db_lock, -100, now).unique_users = 3
    /\ get_overall_stats(activity, db_lock, -100, now).avg_per_user_tenths = 13

\* the step ran one of the four queries of the statistics engine
Queried ==
    /\ last'.op \in StatsOps
    /\ last'.query # NoQuery

\* the step repeats the query of the step before it, on the same clock
Repeated ==
    /\ Queried
    /\ last.query # NoQuery
    /\ last'.op = last.op
    /\ last'.chat_id = last.chat_id
    /\ last'.user_id = last.user_id
    /\ last'.args = last.args
    /\ now' = now

\* C20: a step that runs top_contributors, peak_hours, overall_stats or
\* export_csv leaves the activity events, the groups table and the group
\* admins unchanged, and a query repeated on the same clock with no write in
\* between returns the result it returned before.
C20_ReadsArePure ==
    [][/\ Queried => UNCHANGED <<activity, groups, group_admins>>
       /\ Repeated /\ UNCHANGED <<activity, groups, group_admins>>
             => last'.result = last.result]_vars

\* the export of chat -100 has listed two users of a table of four events
\* that also holds an event of chat -200
C20_Witness ==
    /\ last.op = "export_data"
    /\ last.query = "export_to_csv"
    /\ Len(last.result.rows) = 2
    /\ Len(activity) = MaxRows
    /\ ChatEvents(-200) # {}

\* the activity table a is the first rows of the activity table b
Extends(b, a) == Len(a) <= Len(b) /\ SubSeq(b, 1, Len(a)) = a

\* C21: the activity table is append-only: a step either leaves it as it is or
\* is a track_message that stored exactly one row after the rows already there,
\* the row log_activity builds for the chat and user of the message at the
\* time of the step, with an hour in 0..23; approve_trial, extend_subscription,
\* revoke_access, the status reads, backup and restore leave every row in place.
C21_AppendOnly ==
    [][/\ Extends(activity', activity)
       /\ Len(activity') <= Len(activity) + 1
       /\ (activity' # activity) =>
            /\ Ran("track_message")
            /\ last'.logged
            /\ \E m \in Messages :
                 activity' = log_activity(activity, db_lock, last'.chat_id, last'.user_id,
                                          message_type_of(m), now, NoFault).activity
            /\ activity'[Len(activity')].hour \in 0..(HoursPerDay - 1)
            /\ activity'[Len(activity')].timestamp = now
       /\ (~Ran("track_message") \/ ~last'.logged) => activity' = activity
      ]_vars

\* three events were recorded, the last of them in hour 23, and the handlers
\* that followed (here a restore that took the group back to its backed-up
\* trial) left the three rows in place
C21_Witness ==
    /\ Len(activity) = 3
    /\ activity[3].hour = 23
    /\ last.op = "restore_backup"
    /\ last.reply = "Restored groups from backup"
    /\ \E r \in groups : r.status = "trial"

\* the step handled a message whose log_activity call raised
LogFaulted ==
    /\ Ran("track_message")
    /\ last'.fault = "log_activity"
    /\ last'.status \in Access

\* C22 as stated: when the write of log_activity raises inside track_message,
\* no row is added to the activity table, no table, worksheet or notification
\* changes, the handler returns without an exception, and the next message of
\* the group, handled without a fault of its own, is recorded as usual.  The
\* last part fails while the connection of the call that raised is still open:
\* the INSERT of the next message raises 'database is locked'.
C22_LogFaultSwallowed ==
    [][/\ LogFaulted =>
            /\ UNCHANGED <<activity, groups, group_admins, backup_sheet, notifications>>
            /\ ~last'.logged
            /\ last'.reply = NoReply
       /\ (/\ last.op = "track_message" /\ last.fault = "log_activity"
           /\ last.status \in Access
           /\ Ran("track_message") /\ last'.fault = NoFault.at
           /\ last'.status \in Access)
          => /\ last'.logged
             /\ \E m \in Messages :
                  activity' = log_activity(activity, db_lock, last'.chat_id, last'.user_id,
                                           message_type_of(m), now, NoFault).activity
      ]_vars

\* C23: a message of a private chat changes nothing: no row is added to the
\* groups table, no row to the activity table, get_group_status is not called
\* (so no status is stored as expired) and no new-group notification is sent.
C23_PrivateIgnored ==
    [][Ran("track_message") =>
            /\ UNCHANGED <<groups, activity, group_admins, backup_sheet, notifications>>
            /\ ~last'.is_new
            /\ last'.status = NotRead
            /\ ~last'.logged
      ]_vars

\* a private message came while the stored trial was past its deadline: the
\* row is still a trial, nothing is logged and no notification was sent
C23_Witness ==
    /\ last.op = "track_message"
    /\ last.status = NotRead
    /\ now = 1
    /\ groups = {Row(last.chat_id, "trial", Iso(0), EMPTY)}
    /\ activity = <<>>
    /\ notifications[last.chat_id] = 0

\* chat c is stored as trial or active in table g
HasAccess(g, c) == HasRow(g, c) /\ fetchone(g, c).status \in Access

\* C24: the message that registers a group is never recorded: its handler adds
\* the pending row and records nothing before it waits for the new-group
\* notification, and when it goes on the row is the pending row it added, the
\* status read returns pending and nothing is written.  A row is added to the
\* activity table only for a chat stored as trial or active before the message
\* is recorded, and a chat comes to be stored as trial or active only by an
\* approve_trial or extend_subscription carried out for it or by a restore of
\* a worksheet row that holds it as trial or active; so every event of a chat
\* comes after such a grant or restore.
C24_FirstMessageNotRecorded ==
    [][/\ (Arrived /\ last'.is_new) =>
            /\ ~last'.logged
            /\ activity' = activity
            /\ last'.status = NotRead
            /\ Created(last'.chat_id, Row(last'.chat_id, "pending", NULL, NULL))
       /\ (Resumed /\ last'.is_new) =>
            /\ Row(last'.chat_id, "pending", NULL, NULL) \in groups
            /\ last'.status = "pending"
            /\ ~last'.logged
            /\ UNCHANGED <<groups, activity>>
       /\ (activity' # activity) =>
            /\ Ran("track_message")
            /\ ~last'.is_new
            /\ HasAccess(groups, last'.chat_id)
            /\ activity'[Len(activity')].chat_id = last'.chat_id
       /\ \A c \in Chats :
            (HasAccess(groups', c) /\ ~HasAccess(groups, c)) =>
               \/ Granted("approve_trial", c)
               \/ Granted("extend_subscription", c)
               \/ Restored(c, "trial")
               \/ Restored(c, "active")
      ]_vars

\* the first message of the chat registered it (one notification) and was not
\* recorded; after the grant a later message was: the one event of the table
C24_Witness ==
    /\ last.op = "track_message"
    /\ last.logged
    /\ ~last.is_new
    /\ suspended = {}
    /\ notifications[last.chat_id] = 1
    /\ Len(activity) = 1
    /\ activity[1].chat_id = last.chat_id

\* the instant stored in a deadline column is later than t
Ahead(x, t) == Truthy(x) /\ fromisoformat(x) > t
\* the instant stored in a deadline column is earlier than t
Behind(x, t) == Truthy(x) /\ fromisoformat(x) < t

\* C25: the status read looks at the deadline of the stored status only: an
\* active group with subscription_end ahead is read as active, and its row left
\* alone, although its trial_end is behind; a trial group with trial_end behind
\* is read as expired, and stored so, although its subscription_end is ahead.
C25_OwnDeadlineOnly ==
    [][\A c \in Chats :
        (ReadStatus /\ last'.chat_id = c /\ HasRow(groups, c)) =>
           LET r == fetchone(groups, c)
           IN /\ (/\ r.status = "active"
                  /\ Ahead(r.subscription_end_date, now)
                  /\ Behind(r.trial_end_date, now))
                 => last'.status = "active" /\ groups' = groups
              /\ (/\ r.status = "trial"
                  /\ Behind(r.trial_end_date, now)
                  /\ Ahead(r.subscription_end_date, now))
                 => /\ last'.status = "expired"
                    /\ groups' = Expire(groups, r)
      ]_vars

\* a trial re-issued on a subscribed group ran out while the subscription had
\* a day to go, and the status read stored the group as expired
C25_Witness ==
    /\ last.status = "expired"
    /\ now = 1
    /\ groups = {Row(last.chat_id, "expired", Iso(0), Iso(HoursPerDay))}

\* the step is a revoke_access carried out for chat c
Revoked(c) ==
    /\ Ran("revoke_access") /\ last'.chat_id = c
    /\ last'.reply = "Access revoked"

\* the step is a status read of chat c that found the deadline of the stored
\* status passed and stored the row as expired
ReadExpired(c) ==
    /\ ReadStatus /\ last'.chat_id = c
    /\ last'.status = "expired"
    /\ DeadlinePassed(fetchone(groups, c), now)
    /\ groups' = Expire(groups, fetchone(groups, c))

\* C26 as stated: with handlers interleaved at their awaits, a group stored as
\* trial or active comes to be stored as expired only by a revoke_access or by
\* a status read that finds the deadline of the stored row passed.
C26_ExpiredByRevokeOrRead ==
    [][\A c \in Chats :
        (HasAccess(groups, c) /\ HasRow(groups', c)
            /\ fetchone(groups', c).status = "expired")
        => Revoked(c) \/ ReadExpired(c)
      ]_vars

\* C26 amended: with handlers interleaved at their awaits, the status read and
\* its expired write are one step on the row as stored, and a group stored as
\* trial or active loses that status only by a revoke_access, by a status read
\* that finds the deadline of the stored row passed (both store expired), or
\* by a restore that writes the worksheet row of the chat; a handler that
\* goes on after its await does not undo a grant.
C26_GrantKeptAcrossAwaits ==
    [][\A c \in Chats :
        (HasAccess(groups, c) /\ ~HasAccess(groups', c))
        => \/ /\ HasRow(groups', c)
              /\ fetchone(groups', c).status = "expired"
              /\ Revoked(c) \/ ReadExpired(c)
           \/ \E s \in Statuses \ Access :
                 /\ Restored(c, s)
                 /\ HasRow(groups', c)
                 /\ fetchone(groups', c).status = s
      ]_vars

\* a grant made after the backup was undone by the restore of that backup:
\* the group is stored as expired with the deadline of the grant still ahead,
\* and no handler waits
C26_Witness ==
    /\ last.op = "restore_backup"
    /\ last.reply = "Restored groups from backup"
    /\ suspended = {}
    /\ \E r \in groups :
          /\ r.status = "expired"
          /\ \/ Truthy(r.trial_end_date) /\ fromisoformat(r.trial_end_date) > now
             \/ Truthy(r.subscription_end_date)
                   /\ fromisoformat(r.subscription_end_date) > now

\* the step is one that neither reads the status of a chat nor is a command
\* that writes the row of one
Passive ==
    /\ ~ReadStatus
    /\ ~Ran("approve_trial")
    /\ ~Ran("extend_subscription")
    /\ ~Ran("revoke_access")
    /\ ~Ran("restore_backup")

\* C27: only a status read stores a passed deadline as expired: time going by,
\* my_groups, pending_groups, backup_now and the daily backup leave every row
\* of the groups table as it is, whatever deadlines have passed; my_groups lists every row stored as trial or
\* active with its stored status, pending_groups the rows stored as pending,
\* and a successful backup writes the stored status of every row; so a group
\* past its deadline is listed as trial or active until its status is read.
C27_ExpiryOnlyOnRead ==
    [][/\ Passive => \A r \in groups : r \in groups'
       /\ (Ran("my_groups") /\ last'.query = "get_all_active_groups") =>
             /\ \A r \in groups :
                   r.status \in Access =>
                      \E x \in last'.result :
                         x.chat_id = r.chat_id /\ x.status = r.status
             /\ \A x \in last'.result : HasAccess(groups, x.chat_id)
       /\ (Ran("pending_groups") /\ last'.query = "get_pending_groups") =>
             last'.result = {r \in groups : r.status = "pending"}
       /\ BackedUp =>
             \A r \in groups :
                \E k \in 1..Len(backup_sheet'.rows) :
                   /\ backup_sheet'.rows[k].chat_id = r.chat_id
                   /\ backup_sheet'.rows[k].status = r.status
      ]_vars

\* the subscription ran out an hour ago and no status read came since: the
\* group is stored as active and my_groups has listed it as active
C27_Witness ==
    /\ last.op = "my_groups"
    /\ last.query = "get_all_active_groups"
    /\ \E r \in groups :
          /\ r.status = "active"
          /\ DeadlinePassed(r, now)
          /\ \E x \in last.result : x.chat_id = r.chat_id /\ x.status = "active"

GrantOrRevoke == {"approve_trial", "extend_subscription", "revoke_access"}
Successes == {"Trial approved", "Subscription extended", "Access revoked"}

\* C28: approve_trial, extend_subscription and revoke_access issued by the
\* super admin for a chat that has no row add no row and change no table,
\* worksheet or notification, and still answer with their success message; the
\* first group message of that chat, also when it comes right after such a
\* command, registers it as pending (created = true, one notification), and
\* its handler records nothing, before its await or after it.
C28_GrantWithoutRow ==
    [][\A c \in Chats :
        /\ (/\ ~HasRow(groups, c)
            /\ last'.op \in GrantOrRevoke /\ Ran(last'.op)
            /\ last'.chat_id = c
            /\ is_super_admin(last'.user_id))
           => /\ UNCHANGED <<groups, activity, group_admins, backup_sheet,
                             notifications>>
              /\ last'.reply \in Successes
        /\ (Arrived /\ last'.chat_id = c /\ ~HasRow(groups, c))
           => /\ last'.is_new
              /\ last'.status = NotRead
              /\ groups' = groups \cup {Row(c, "pending", NULL, NULL)}
              /\ notifications' = [notifications EXCEPT ![c] = @ + 1]
        /\ (Ran("track_message") /\ last'.chat_id = c /\ last'.is_new)
           => /\ ~last'.logged
              /\ activity' = activity
        /\ (Resumed /\ last'.chat_id = c)
           => /\ last'.is_new
              /\ last'.status = "pending"
              /\ UNCHANGED <<groups, activity, notifications>>
      ]_vars

\* a subscription was extended for a chat no message has come from: the
\* command answered that it was done, and no row is stored
C28_Witness ==
    /\ last.op = "extend_subscription"
    /\ last.reply = "Subscription extended"
    /\ last.chat_id \in Chats
    /\ groups = {}
    /\ activity = <<>>

\* C29: in every state a row stored as trial holds a trial_end and a row stored
\* as active holds a subscription_end, so the status read has a deadline to
\* compare with the clock; a row stored as pending holds neither deadline.
\* The worksheet rows, written by backups of such tables, satisfy the same.
C29_DeadlineForStatus ==
    /\ \A r \in groups :
          /\ r.status = "trial" => Truthy(r.trial_end_date)
          /\ r.status = "active" => Truthy(r.subscription_end_date)
          /\ r.status = "pending" =>
                ~Truthy(r.trial_end_date) /\ ~Truthy(r.subscription_end_date)
    /\ \A k \in 1..Len(backup_sheet.rows) :
          LET record == backup_sheet.rows[k]
          IN /\ record.status = "trial" => Truthy(record.trial_end_date)
             /\ record.status = "active" => Truthy(record.subscription_end_date)
             /\ record.status = "pending" =>
                   /\ ~Truthy(record.trial_end_date)
                   /\ ~Truthy(record.subscription_end_date)

\* a restore has written back a group that was subscribed without ever having
\* a trial: it is active with a subscription_end and a blank trial_end
C29_Witness ==
    /\ last.op = "restore_backup"
    /\ last.reply = "Restored groups from backup"
    /\ \E r \in groups :
          /\ r.status = "active"
          /\ Truthy(r.subscription_end_date)
          /\ r.trial_end_date = EMPTY

\* the handlers that read the status of their chat before anything else
Gated == StatsOps \cup {"track_message"}

\* C30: a handler that reaches its status read while the read raises, or, for
\* a statistics command, in a chat that has no row, gets None: the message is
\* not recorded, the statistics command answers that the group is not
\* authorized and runs no query, and the stored rows of the chat stay as they
\* are (a first message still registers the chat as pending before the read).
C30_FailsClosed == [][\A c \in Chats :
    (/\ now' = now
     /\ last'.op \in Gated
     /\ last'.chat_id = c
     /\ last'.reply \notin {MsgGroupsOnly, MsgAdminsOnly}
     /\ \/ last'.fault = "get_group_status"
        \/ last'.op \in StatsOps /\ ~HasRow(groups, c))
    => /\ last'.status = None
       /\ ~last'.logged
       /\ activity' = activity
       /\ last'.op \in StatsOps =>
             /\ last'.reply = MsgNotAuthorized
             /\ last'.query = NoQuery
             /\ groups' = groups
       /\ last'.op = "track_message" =>
             groups' = register_group(groups, db_lock, c).groups]_vars

\* the read has raised for a statistics command in a chat whose stored trial
\* has not run out, and the command was turned away
C30_Witness ==
    /\ last.op \in StatsOps
    /\ last.fault = "get_group_status"
    /\ last.reply = MsgNotAuthorized
    /\ \E r \in RowsOf(groups, last.chat_id) :
          /\ r.status = "trial"
          /\ now < fromisoformat(r.trial_end_date)

=============================================================================
